---- MODULE Spec2Model ----
(***************************************************************************)
(* bedside-board: the per-user daily data layer of server/db.ts behind the *)
(* Express handlers of server/index.ts.                                    *)
(*                                                                         *)
(* Representation                                                          *)
(*   - a nullable value (SQL NULL, JS null) is a sequence of length <= 1:  *)
(*     NULL is <<>>, the value v is <<v>>;                                 *)
(*   - an optional property of a JS object is a field that is or is not in *)
(*     the DOMAIN of the record (data.mood !== undefined is                *)
(*     "mood" \in DOMAIN data);                                            *)
(*   - a JS object used as a map (metricValues) is a function from keys to *)
(*     numbers; its JSON text is the set of its members <<key, value>>;    *)
(*   - a table is the sequence of its rows in rowid order;                 *)
(*   - a calendar date YYYY-MM-DD is the number of its day, so that the    *)
(*     order of the numbers is the order of the strings;                   *)
(*   - created_at is datetime('now'), the clock in whole seconds.          *)
(* An icon is the text of its code points ("U+1F915").  The columns        *)
(* created_at/updated_at of users, user_metrics, user_event_types and      *)
(* day_data are written but never read and are left out.                   *)
(***************************************************************************)
EXTENDS Integers, Sequences, FiniteSets, TLC

VARIABLES
    db,      \* the SQLite store: one field per table, and nextId (generateId)
    now,     \* the clock, in seconds: datetime('now')
    reqs,    \* the PATCH-day requests on their way through the server
    last,    \* the last operation carried out
    client   \* the browser tab of App.tsx: its day data, its debounce timer and
             \* the API call it awaits

(***************************************************************************)
(* Bounds                                                                  *)
(***************************************************************************)
MaxEvents == 2      \* rows of events in SpecEvents
MaxQuestions == 2   \* rows of questions in SpecQuestions
MaxClock == 1       \* the clock runs from 0 to MaxClock
MaxRequests == 3    \* PATCH-day requests of SpecRace
MaxIds == 23        \* calls of generateId in SpecSettings
MaxUserMetrics == 2 \* metrics of a user who adds metrics in SpecSettings

UserIds == {"u1", "u2"}
Dates == {1, 2}

(***************************************************************************)
(* Values                                                                  *)
(***************************************************************************)
NULL == <<>>
Some(v) == <<v>>
\* a ?? b
Coalesce(a, b) == IF a = NULL THEN b ELSE a

Restrict(f, S) == [k \in S |-> f[k]]
Range(s) == {s[i] : i \in DOMAIN s}

\* JSON.stringify of a map object: the text, as the set of its members
JSON_stringify(obj) == {<<k, obj[k]>> : k \in DOMAIN obj}
\* JSON.parse of such a text
JSON_parse(text) ==
    [k \in {m[1] : m \in text} |-> (CHOOSE m \in text : m[1] = k)[2]]

\* { ...a, ...b }
Spread(a, b) ==
    [k \in (DOMAIN a) \cup (DOMAIN b) |-> IF k \in DOMAIN b THEN b[k] ELSE a[k]]

(***************************************************************************)
(* Schema and defaults (db.ts 239-369)                                     *)
(***************************************************************************)
DEFAULT_METRICS == <<
    [name |-> "Pain", icon |-> "U+1F915",
     minValue |-> 0, maxValue |-> 10, defaultValue |-> 0, sortOrder |-> 0],
    [name |-> "Anxiety", icon |-> "U+1F630",
     minValue |-> 0, maxValue |-> 10, defaultValue |-> 0, sortOrder |-> 1],
    [name |-> "Energy", icon |-> "U+26A1",
     minValue |-> 0, maxValue |-> 10, defaultValue |-> 5, sortOrder |-> 2] >>

DEFAULT_EVENT_TYPES == <<
    [name |-> "Obs done", icon |-> "U+1FA7A", sortOrder |-> 0],
    [name |-> "Bloods", icon |-> "U+1FA78", sortOrder |-> 1],
    [name |-> "ECG", icon |-> "U+1F493", sortOrder |-> 2],
    [name |-> "Scan/X-ray", icon |-> "U+1F4F7", sortOrder |-> 3],
    [name |-> "Doctor round", icon |-> "U+1F468 U+200D U+2695 U+FE0F", sortOrder |-> 4],
    [name |-> "Medication", icon |-> "U+1F48A", sortOrder |-> 5],
    [name |-> "Meal", icon |-> "U+1F37D U+FE0F", sortOrder |-> 6] >>

\* the store after the CREATE TABLE IF NOT EXISTS statements on a new file
EmptyDb ==
    [users |-> <<>>, user_metrics |-> <<>>, user_event_types |-> <<>>,
     day_data |-> <<>>, events |-> <<>>, questions |-> <<>>, nextId |-> 1]

\* generateId(): Date.now() in base 36 followed by random digits; the n-th
\* call returns an id that no earlier call returned
generateId(n) == "id" \o ToString(n)

(***************************************************************************)
(* User operations                                                         *)
(***************************************************************************)
UserRows(d, userId) == SelectSeq(d.users, LAMBDA r : r.id = userId)
MetricRows(d, userId) == SelectSeq(d.user_metrics, LAMBDA r : r.user_id = userId)
EventTypeRows(d, userId) == SelectSeq(d.user_event_types, LAMBDA r : r.user_id = userId)

\* an INSERT OR REPLACE INTO users: the row is written anew on every call
InsertOrReplaceUser(d, userId) ==
    [d EXCEPT !.users = Append(SelectSeq(@, LAMBDA r : r.id # userId),
                               [id |-> userId, admission_date |-> NULL])]

\* INSERT INTO users (id) VALUES (?) when no row has that id
InsertUser(d, userId) ==
    IF Len(UserRows(d, userId)) > 0 THEN d
    ELSE [d EXCEPT !.users = Append(@, [id |-> userId, admission_date |-> NULL])]

\* a seeding of the metrics made once per user, when the user has no metric and
\* no event type
SeedMetricsOnce(d, userId) ==
    IF Len(MetricRows(d, userId)) # 0 \/ Len(EventTypeRows(d, userId)) # 0 THEN d
    ELSE [d EXCEPT
            !.user_metrics = @ \o
                [i \in 1..Len(DEFAULT_METRICS) |->
                    [id |-> generateId(d.nextId + i - 1), user_id |-> userId,
                     name |-> DEFAULT_METRICS[i].name, icon |-> DEFAULT_METRICS[i].icon,
                     min_value |-> DEFAULT_METRICS[i].minValue,
                     max_value |-> DEFAULT_METRICS[i].maxValue,
                     default_value |-> DEFAULT_METRICS[i].defaultValue,
                     sort_order |-> DEFAULT_METRICS[i].sortOrder]],
            !.nextId = @ + Len(DEFAULT_METRICS)]

\* a seeding of the metrics without the count: the defaults on every call
SeedMetricsAlways(d, userId) ==
    [d EXCEPT
        !.user_metrics = @ \o
            [i \in 1..Len(DEFAULT_METRICS) |->
                [id |-> generateId(d.nextId + i - 1), user_id |-> userId,
                 name |-> DEFAULT_METRICS[i].name, icon |-> DEFAULT_METRICS[i].icon,
                 min_value |-> DEFAULT_METRICS[i].minValue,
                 max_value |-> DEFAULT_METRICS[i].maxValue,
                 default_value |-> DEFAULT_METRICS[i].defaultValue,
                 sort_order |-> DEFAULT_METRICS[i].sortOrder]],
        !.nextId = @ + Len(DEFAULT_METRICS)]

\* the loop over DEFAULT_METRICS when the user has no metric
SeedMetrics(d, userId) ==
    IF Len(MetricRows(d, userId)) # 0 THEN d
    ELSE [d EXCEPT
            !.user_metrics = @ \o
                [i \in 1..Len(DEFAULT_METRICS) |->
                    [id |-> generateId(d.nextId + i - 1), user_id |-> userId,
                     name |-> DEFAULT_METRICS[i].name, icon |-> DEFAULT_METRICS[i].icon,
                     min_value |-> DEFAULT_METRICS[i].minValue,
                     max_value |-> DEFAULT_METRICS[i].maxValue,
                     default_value |-> DEFAULT_METRICS[i].defaultValue,
                     sort_order |-> DEFAULT_METRICS[i].sortOrder]],
            !.nextId = @ + Len(DEFAULT_METRICS)]

\* a seeding of the event types that counts the metrics instead
SeedEventTypesByMetricCount(d, userId) ==
    IF Len(MetricRows(d, userId)) # 0 THEN d
    ELSE [d EXCEPT
            !.user_event_types = @ \o
                [i \in 1..Len(DEFAULT_EVENT_TYPES) |->
                    [id |-> generateId(d.nextId + i - 1), user_id |-> userId,
                     name |-> DEFAULT_EVENT_TYPES[i].name, icon |-> DEFAULT_EVENT_TYPES[i].icon,
                     sort_order |-> DEFAULT_EVENT_TYPES[i].sortOrder]],
            !.nextId = @ + Len(DEFAULT_EVENT_TYPES)]

\* the loop over DEFAULT_EVENT_TYPES when the user has no event type
SeedEventTypes(d, userId) ==
    IF Len(EventTypeRows(d, userId)) # 0 THEN d
    ELSE [d EXCEPT
            !.user_event_types = @ \o
                [i \in 1..Len(DEFAULT_EVENT_TYPES) |->
                    [id |-> generateId(d.nextId + i - 1), user_id |-> userId,
                     name |-> DEFAULT_EVENT_TYPES[i].name, icon |-> DEFAULT_EVENT_TYPES[i].icon,
                     sort_order |-> DEFAULT_EVENT_TYPES[i].sortOrder]],
            !.nextId = @ + Len(DEFAULT_EVENT_TYPES)]

\* a getOrCreateUser that seeds the defaults only with the insert of the user
getOrCreateUserSeedingOnInsert(d, userId) ==
    IF Len(UserRows(d, userId)) > 0 THEN d
    ELSE SeedEventTypes(SeedMetrics(InsertUser(d, userId), userId), userId)

getOrCreateUser(d, userId) ==
    SeedEventTypes(SeedMetrics(InsertUser(d, userId), userId), userId)

\* an UPDATE users SET admission_date = ? without the WHERE clause
updateAdmissionDateAllUsers(d, userId, admissionDate) ==
    [d EXCEPT !.users = [i \in DOMAIN @ |-> [@[i] EXCEPT !.admission_date = admissionDate]]]

\* UPDATE users SET admission_date = ? WHERE id = ?
updateAdmissionDate(d, userId, admissionDate) ==
    [d EXCEPT !.users =
        [i \in DOMAIN @ |->
            IF @[i].id = userId THEN [@[i] EXCEPT !.admission_date = admissionDate]
            ELSE @[i]]]

\* ORDER BY key ASC over the rows whose indices are in S: every order of the
\* indices that is ascending in the key; rows of equal key come in an order
\* that SQL leaves open
RECURSIVE AscOrders(_, _)
AscOrders(keys, S) ==
    IF S = {} THEN {<<>>}
    ELSE UNION {{<<i>> \o r : r \in AscOrders(keys, S \ {i})} :
                    i \in {j \in S : \A k \in S : keys[j] <= keys[k]}}

\* a SELECT without ORDER BY: the rows as the table holds them
OrderByRowid(rows, keys) == {rows}

OrderByAsc(rows, keys) ==
    {[i \in DOMAIN o |-> rows[o[i]]] : o \in AscOrders(keys, DOMAIN rows)}
OrderByDesc(rows, keys) ==
    OrderByAsc(rows, [i \in DOMAIN keys |-> 0 - keys[i]])

\* getUserSettings: the store it leaves and the settings it can return
getUserSettings(d, userId) ==
    LET d1 == getOrCreateUser(d, userId)
        user == UserRows(d1, userId)
        metricsRaw == MetricRows(d1, userId)
        eventTypesRaw == EventTypeRows(d1, userId)
    IN [db |-> d1,
        res |-> {[metrics |-> [i \in DOMAIN ms |->
                                [id |-> ms[i].id, name |-> ms[i].name, icon |-> ms[i].icon,
                                 minValue |-> ms[i].min_value, maxValue |-> ms[i].max_value,
                                 defaultValue |-> ms[i].default_value,
                                 sortOrder |-> ms[i].sort_order]],
                  eventTypes |-> [i \in DOMAIN es |->
                                [id |-> es[i].id, name |-> es[i].name, icon |-> es[i].icon,
                                 sortOrder |-> es[i].sort_order]],
                  admissionDate |-> IF Len(user) = 0 THEN NULL ELSE user[1].admission_date] :
                    ms \in OrderByAsc(metricsRaw,
                                      [i \in DOMAIN metricsRaw |-> metricsRaw[i].sort_order]),
                    es \in OrderByAsc(eventTypesRaw,
                                      [i \in DOMAIN eventTypesRaw |-> eventTypesRaw[i].sort_order])}]

\* an INSERT INTO user_metrics (id, user_id, name) that leaves the other
\* columns to their defaults
addMetricColumnDefaults(d, userId, metric) ==
    LET id == generateId(d.nextId)
    IN [db |-> [d EXCEPT
                    !.user_metrics = Append(@,
                        [id |-> id, user_id |-> userId, name |-> metric.name,
                         icon |-> "", min_value |-> 0, max_value |-> 10,
                         default_value |-> 5, sort_order |-> 0]),
                    !.nextId = @ + 1],
        res |-> [id |-> id, name |-> metric.name, icon |-> metric.icon,
                 minValue |-> metric.minValue,
                 maxValue |-> metric.maxValue, defaultValue |-> metric.defaultValue,
                 sortOrder |-> metric.sortOrder]]

\* addMetric: the store it leaves and the metric it returns
addMetric(d, userId, metric) ==
    LET id == generateId(d.nextId)
    IN [db |-> [d EXCEPT
                    !.user_metrics = Append(@,
                        [id |-> id, user_id |-> userId, name |-> metric.name,
                         icon |-> metric.icon,
                         min_value |-> metric.minValue, max_value |-> metric.maxValue,
                         default_value |-> metric.defaultValue,
                         sort_order |-> metric.sortOrder]),
                    !.nextId = @ + 1],
        res |-> [id |-> id, name |-> metric.name, icon |-> metric.icon,
                 minValue |-> metric.minValue,
                 maxValue |-> metric.maxValue, defaultValue |-> metric.defaultValue,
                 sortOrder |-> metric.sortOrder]]

\* an UPDATE user_metrics ... WHERE id = ? alone
updateMetricAnyUser(d, userId, metric) ==
    [d EXCEPT !.user_metrics =
        [i \in DOMAIN @ |->
            IF @[i].id = metric.id
            THEN [@[i] EXCEPT !.name = metric.name, !.icon = metric.icon,
                              !.min_value = metric.minValue,
                              !.max_value = metric.maxValue,
                              !.default_value = metric.defaultValue,
                              !.sort_order = metric.sortOrder]
            ELSE @[i]]]

updateMetric(d, userId, metric) ==
    [d EXCEPT !.user_metrics =
        [i \in DOMAIN @ |->
            IF @[i].id = metric.id /\ @[i].user_id = userId
            THEN [@[i] EXCEPT !.name = metric.name, !.icon = metric.icon,
                              !.min_value = metric.minValue,
                              !.max_value = metric.maxValue,
                              !.default_value = metric.defaultValue,
                              !.sort_order = metric.sortOrder]
            ELSE @[i]]]

\* a deletion that also removes the values of the metric from the day rows of
\* the user
deleteMetricCascade(d, userId, metricId) ==
    [d EXCEPT
        !.user_metrics = SelectSeq(@, LAMBDA r : ~(r.id = metricId /\ r.user_id = userId)),
        !.day_data = [i \in DOMAIN @ |->
            IF @[i].user_id = userId
            THEN [@[i] EXCEPT !.metric_values =
                    {m \in @ : m[1] # metricId}]
            ELSE @[i]]]

deleteMetric(d, userId, metricId) ==
    [d EXCEPT !.user_metrics =
        SelectSeq(@, LAMBDA r : ~(r.id = metricId /\ r.user_id = userId))]

\* addEventType: the store it leaves and the event type it returns
addEventType(d, userId, eventType) ==
    LET id == generateId(d.nextId)
    IN [db |-> [d EXCEPT
                    !.user_event_types = Append(@,
                        [id |-> id, user_id |-> userId, name |-> eventType.name,
                         icon |-> eventType.icon,
                         sort_order |-> eventType.sortOrder]),
                    !.nextId = @ + 1],
        res |-> [id |-> id, name |-> eventType.name, icon |-> eventType.icon,
                 sortOrder |-> eventType.sortOrder]]

updateEventType(d, userId, eventType) ==
    [d EXCEPT !.user_event_types =
        [i \in DOMAIN @ |->
            IF @[i].id = eventType.id /\ @[i].user_id = userId
            THEN [@[i] EXCEPT !.name = eventType.name, !.icon = eventType.icon,
                              !.sort_order = eventType.sortOrder]
            ELSE @[i]]]

deleteEventType(d, userId, eventTypeId) ==
    [d EXCEPT !.user_event_types =
        SelectSeq(@, LAMBDA r : ~(r.id = eventTypeId /\ r.user_id = userId))]

(***************************************************************************)
(* Day data operations                                                     *)
(***************************************************************************)
\* a SELECT of the day rows WHERE user_id = ? alone
DayRowsOfUser(d, userId, date) ==
    SelectSeq(d.day_data, LAMBDA r : r.user_id = userId)
DayRows(d, userId, date) ==
    SelectSeq(d.day_data, LAMBDA r : r.user_id = userId /\ r.date = date)
\* a SELECT of the events WHERE user_id = ? alone
EventRowsOfUser(d, userId, date) ==
    SelectSeq(d.events, LAMBDA r : r.user_id = userId)
EventRows(d, userId, date) ==
    SelectSeq(d.events, LAMBDA r : r.user_id = userId /\ r.date = date)
QuestionRows(d, userId, date) ==
    SelectSeq(d.questions, LAMBDA r : r.user_id = userId /\ r.date = date)

\* getDayData: the store it leaves and the aggregates it can return
getDayData(d, userId, date) ==
    LET d1 == getOrCreateUser(d, userId)
        dayRow == DayRows(d1, userId, date)
        eventsRaw == EventRows(d1, userId, date)
        questionsRaw == QuestionRows(d1, userId, date)
        metricValues == IF Len(dayRow) > 0 THEN JSON_parse(dayRow[1].metric_values)
                        ELSE <<>>
    IN [db |-> d1,
        res |-> {[date |-> date,
                  mood |-> IF Len(dayRow) > 0 THEN dayRow[1].mood ELSE NULL,
                  metricValues |-> metricValues,
                  notes |-> IF Len(dayRow) > 0 THEN dayRow[1].notes ELSE "",
                  events |-> [i \in DOMAIN es |->
                                [id |-> es[i].id, time |-> es[i].time,
                                 type |-> es[i].type, note |-> es[i].note]],
                  questions |-> [i \in DOMAIN qs |->
                                [id |-> qs[i].id, text |-> qs[i].text,
                                 answered |-> (qs[i].answered = 1)]]] :
                    es \in OrderByDesc(eventsRaw,
                                       [i \in DOMAIN eventsRaw |-> eventsRaw[i].created_at]),
                    qs \in OrderByAsc(questionsRaw,
                                      [i \in DOMAIN questionsRaw |-> questionsRaw[i].created_at])}]

\* const existing = SELECT id, metric_values FROM day_data WHERE ... .get():
\* NULL when no row matches, the first matching row otherwise
selectExisting(d, userId, date) ==
    IF Len(DayRows(d, userId, date)) = 0 THEN NULL
    ELSE Some(DayRows(d, userId, date)[1])

\* a merge that lets the stored values win
mergeKeepingStored(currentValues, patchValues) == Spread(patchValues, currentValues)

\* a write of the patch alone: the stored values are dropped
mergeReplacingStored(currentValues, patchValues) == patchValues

\* const merged = { ...currentValues, ...data.metricValues }
mergeMetricValues(currentValues, patchValues) == Spread(currentValues, patchValues)

\* an UPDATE that sets every column, as the INSERT does (data.mood ?? null)
updateDayRowAllColumns(d, userId, date, data, existing) ==
    [d EXCEPT !.day_data =
        [i \in DOMAIN @ |->
            IF @[i].user_id = userId /\ @[i].date = date
            THEN [@[i] EXCEPT
                    !.mood = IF "mood" \in DOMAIN data THEN data.mood ELSE NULL,
                    !.metric_values =
                        IF "metricValues" \in DOMAIN data
                        THEN JSON_stringify(Spread(
                                JSON_parse(existing.metric_values), data.metricValues))
                        ELSE @,
                    !.notes = IF "notes" \in DOMAIN data THEN data.notes ELSE ""]
            ELSE @[i]]]

\* the UPDATE branch of updateDayData: the SET list holds the fields present
\* in data; metric_values is the stored map of `existing` merged with the patch
updateDayRow(d, userId, date, data, existing) ==
    [d EXCEPT !.day_data =
        [i \in DOMAIN @ |->
            IF @[i].user_id = userId /\ @[i].date = date
            THEN [@[i] EXCEPT
                    !.mood = IF "mood" \in DOMAIN data THEN data.mood ELSE @,
                    !.metric_values =
                        IF "metricValues" \in DOMAIN data
                        THEN JSON_stringify(mergeMetricValues(
                                JSON_parse(existing.metric_values), data.metricValues))
                        ELSE @,
                    !.notes = IF "notes" \in DOMAIN data THEN data.notes ELSE @]
            ELSE @[i]]]

\* an INSERT that leaves metric_values to the column default '{}'
newDayRowDefaultMetrics(userId, date, data) ==
    [user_id |-> userId, date |-> date,
     mood |-> IF "mood" \in DOMAIN data THEN Coalesce(data.mood, NULL) ELSE NULL,
     metric_values |-> JSON_stringify(<<>>),
     notes |-> IF "notes" \in DOMAIN data THEN data.notes ELSE ""]

\* an INSERT that leaves notes to the column default ''
newDayRowDefaultNotes(userId, date, data) ==
    [user_id |-> userId, date |-> date,
     mood |-> IF "mood" \in DOMAIN data THEN Coalesce(data.mood, NULL) ELSE NULL,
     metric_values |-> JSON_stringify(IF "metricValues" \in DOMAIN data
                                      THEN data.metricValues ELSE <<>>),
     notes |-> ""]

\* the row of the INSERT branch of updateDayData
newDayRow(userId, date, data) ==
    [user_id |-> userId, date |-> date,
     mood |-> IF "mood" \in DOMAIN data THEN Coalesce(data.mood, NULL) ELSE NULL,
     metric_values |-> JSON_stringify(IF "metricValues" \in DOMAIN data
                                      THEN data.metricValues ELSE <<>>),
     notes |-> IF "notes" \in DOMAIN data THEN data.notes ELSE ""]

\* a write to a day_data table declared without UNIQUE(user_id, date)
writeDayDataNoUnique(d, userId, date, data, existing) ==
    LET d2 == IF existing # NULL THEN updateDayRow(d, userId, date, data, existing[1])
              ELSE [d EXCEPT !.day_data = Append(@, newDayRow(userId, date, data))]
    IN [db |-> IF "admissionDate" \in DOMAIN data
               THEN updateAdmissionDate(d2, userId, data.admissionDate)
               ELSE d2,
        threw |-> FALSE]

\* a write that inserts the day row only when the patch holds a field of the row
writeDayDataWhenFields(d, userId, date, data, existing) ==
    LET threw == existing = NULL /\ Len(DayRows(d, userId, date)) > 0
        d2 == IF existing # NULL THEN updateDayRow(d, userId, date, data, existing[1])
              ELSE IF DOMAIN data \cap {"mood", "metricValues", "notes"} = {} THEN d
              ELSE [d EXCEPT !.day_data = Append(@, newDayRow(userId, date, data))]
    IN IF threw THEN [db |-> d, threw |-> TRUE]
       ELSE [db |-> IF "admissionDate" \in DOMAIN data
                    THEN updateAdmissionDate(d2, userId, data.admissionDate)
                    ELSE d2,
             threw |-> FALSE]

\* updateDayData from the if (existing) on: the store it leaves, and whether
\* it threw (the INSERT violates UNIQUE(user_id, date) when a row is there)
writeDayData(d, userId, date, data, existing) ==
    LET threw == existing = NULL /\ Len(DayRows(d, userId, date)) > 0
        d2 == IF existing # NULL THEN updateDayRow(d, userId, date, data, existing[1])
              ELSE [d EXCEPT !.day_data = Append(@, newDayRow(userId, date, data))]
    IN IF threw THEN [db |-> d, threw |-> TRUE]
       ELSE [db |-> IF "admissionDate" \in DOMAIN data
                    THEN updateAdmissionDate(d2, userId, data.admissionDate)
                    ELSE d2,
             threw |-> FALSE]

updateDayData(d, userId, date, data) ==
    LET d1 == getOrCreateUser(d, userId)
    IN writeDayData(d1, userId, date, data, selectExisting(d1, userId, date)).db

\* a listing that takes its dates from the events and the questions as well
getDaysWithAnyData(d, userId, limit) ==
    LET dates == {r.date : r \in Range(SelectSeq(d.day_data \o d.events \o d.questions,
                                                  LAMBDA r : r.user_id = userId))}
        RECURSIVE Desc(_)
        Desc(S) == IF S = {} THEN <<>>
                   ELSE LET m == CHOOSE x \in S : \A y \in S : y <= x
                        IN <<m>> \o Desc(S \ {m})
    IN SubSeq(Desc(dates), 1, IF Cardinality(dates) < limit THEN Cardinality(dates) ELSE limit)

\* SELECT DISTINCT date ... ORDER BY date DESC LIMIT ?
getDaysWithData(d, userId, limit) ==
    LET dates == {r.date : r \in Range(SelectSeq(d.day_data, LAMBDA r : r.user_id = userId))}
        RECURSIVE Desc(_)
        Desc(S) == IF S = {} THEN <<>>
                   ELSE LET m == CHOOSE x \in S : \A y \in S : y <= x
                        IN <<m>> \o Desc(S \ {m})
    IN SubSeq(Desc(dates), 1, IF Cardinality(dates) < limit THEN Cardinality(dates) ELSE limit)

(***************************************************************************)
(* Event and question operations                                           *)
(***************************************************************************)
\* an INSERT OR REPLACE INTO events: the row that has the id is replaced
addEventOrReplace(d, t, userId, date, event) ==
    [db |-> [d EXCEPT !.events = Append(SelectSeq(@, LAMBDA r : r.id # event.id),
                    [id |-> event.id, user_id |-> userId, date |-> date,
                     time |-> event.time, type |-> event.type,
                     note |-> IF "note" \in DOMAIN event THEN Some(event.note) ELSE NULL,
                     created_at |-> t])],
     threw |-> FALSE]

\* INSERT INTO events: throws when the id is taken (id TEXT PRIMARY KEY)
addEvent(d, t, userId, date, event) ==
    IF \E r \in Range(d.events) : r.id = event.id THEN [db |-> d, threw |-> TRUE]
    ELSE [db |-> [d EXCEPT !.events = Append(@,
                    [id |-> event.id, user_id |-> userId, date |-> date,
                     time |-> event.time, type |-> event.type,
                     note |-> IF "note" \in DOMAIN event THEN Some(event.note) ELSE NULL,
                     created_at |-> t])],
          threw |-> FALSE]

\* a DELETE FROM events WHERE id = ? without the user
deleteEventAnyUser(d, userId, eventId) ==
    [d EXCEPT !.events = SelectSeq(@, LAMBDA r : r.id # eventId)]

deleteEvent(d, userId, eventId) ==
    [d EXCEPT !.events = SelectSeq(@, LAMBDA r : ~(r.id = eventId /\ r.user_id = userId))]

\* INSERT INTO questions: throws when the id is taken (id TEXT PRIMARY KEY)
addQuestion(d, t, userId, date, question) ==
    IF \E r \in Range(d.questions) : r.id = question.id THEN [db |-> d, threw |-> TRUE]
    ELSE [db |-> [d EXCEPT !.questions = Append(@,
                    [id |-> question.id, user_id |-> userId, date |-> date,
                     text |-> question.text,
                     answered |-> IF question.answered THEN 1 ELSE 0,
                     created_at |-> t])],
          threw |-> FALSE]

updateQuestion(d, userId, questionId, answered) ==
    [d EXCEPT !.questions =
        [i \in DOMAIN @ |->
            IF @[i].id = questionId /\ @[i].user_id = userId
            THEN [@[i] EXCEPT !.answered = IF answered THEN 1 ELSE 0]
            ELSE @[i]]]

deleteQuestion(d, userId, questionId) ==
    [d EXCEPT !.questions =
        SelectSeq(@, LAMBDA r : ~(r.id = questionId /\ r.user_id = userId))]

(***************************************************************************)
(* Inputs of the requests.  All of them pass the schemas of the validation *)
(* layer (DayDataUpdateSchema, EventEntrySchema, QuestionSchema).          *)
(***************************************************************************)
Moods == {NULL, Some(3)}
MetricValuesInputs == {[a |-> 1], [b |-> 2], [a |-> 2, b |-> 2]}
NotesInputs == {"x"}
AdmissionDates == {NULL, Some(1)}
DayFields == {"mood", "metricValues", "notes", "admissionDate"}

DayPatches ==
    {Restrict(full, S) :
        full \in [mood : Moods, metricValues : MetricValuesInputs,
                  notes : NotesInputs, admissionDate : AdmissionDates],
        S \in SUBSET DayFields}

vars == <<db, now, reqs, last, client>>

\* the record of an operation: whether the day row was there before it, whether
\* it threw, the fields of its patch, and for a day read the aggregate returned
Done(op, existing, threw, fields, res) ==
    [op |-> op, existing |-> existing, threw |-> threw, fields |-> fields, res |-> res]
NoRes == <<>>

\* App.tsx before its first load: no settings and no day data (useState(null)),
\* no timer set (useRef(null)); zone is the time zone of the browser, known
\* once the page has loaded; unsent is the set of the fields edited and not
\* yet in a PATCH request; call is the API call of an add or a delete that is
\* awaited (the closure of the async callback: its entry)
ClientInit ==
    [settings |-> NULL, data |-> NULL, zone |-> NULL, timer |-> NULL, unsent |-> {},
     call |-> NULL]

Init ==
    /\ db = EmptyDb
    /\ now = 0
    /\ reqs = [r \in 1..MaxRequests |-> [pc |-> "idle"]]
    /\ last = Done("init", FALSE, FALSE, {}, NoRes)
    /\ client = ClientInit

(***************************************************************************)
(* The handlers of server/index.ts.  A handler is a synchronous function   *)
(* over the synchronous better-sqlite3 calls of db.ts: it runs from its    *)
(* first statement to the response as one step.                            *)
(***************************************************************************)
\* GET /api/settings
GetSettings(userId) ==
    /\ db' = getUserSettings(db, userId).db
    /\ last' = Done("getUserSettings", FALSE, FALSE, {}, NoRes)
    /\ UNCHANGED <<now, reqs, client>>

\* GET /api/days/:date
GetDay(userId, date) ==
    /\ db' = getDayData(db, userId, date).db
    /\ \E agg \in getDayData(db, userId, date).res :
            last' = Done("getDayData", Len(DayRows(db, userId, date)) > 0, FALSE, {}, agg)
    /\ UNCHANGED <<now, reqs, client>>

\* PATCH /api/days/:date
PatchDay(userId, date, data) ==
    /\ db' = getDayData(updateDayData(db, userId, date, data), userId, date).db
    /\ last' = Done("updateDayData", Len(DayRows(db, userId, date)) > 0, FALSE, DOMAIN data,
                   NoRes)
    /\ UNCHANGED <<now, reqs, client>>

\* POST /api/days/:date/events
PostEvent(userId, date, event) ==
    /\ LET r == addEvent(db, now, userId, date, event)
       IN /\ db' = IF r.threw THEN db ELSE getDayData(r.db, userId, date).db
          /\ last' = Done("addEvent", FALSE, r.threw, {}, NoRes)
    /\ UNCHANGED <<now, reqs, client>>

\* DELETE /api/events/:id
DeleteEvent(userId, eventId) ==
    /\ db' = deleteEvent(db, userId, eventId)
    /\ last' = Done("deleteEvent", FALSE, FALSE, {}, NoRes)
    /\ UNCHANGED <<now, reqs, client>>

\* POST /api/days/:date/questions
PostQuestion(userId, date, question) ==
    /\ LET r == addQuestion(db, now, userId, date, question)
       IN /\ db' = IF r.threw THEN db ELSE getDayData(r.db, userId, date).db
          /\ last' = Done("addQuestion", FALSE, r.threw, {}, NoRes)
    /\ UNCHANGED <<now, reqs, client>>

\* PATCH /api/questions/:id
PatchQuestion(userId, questionId, answered) ==
    /\ db' = updateQuestion(db, userId, questionId, answered)
    /\ last' = Done("updateQuestion", FALSE, FALSE, {}, NoRes)
    /\ UNCHANGED <<now, reqs, client>>

\* DELETE /api/questions/:id
DeleteQuestion(userId, questionId) ==
    /\ db' = deleteQuestion(db, userId, questionId)
    /\ last' = Done("deleteQuestion", FALSE, FALSE, {}, NoRes)
    /\ UNCHANGED <<now, reqs, client>>

\* a second passes
Tick ==
    /\ now < MaxClock
    /\ now' = now + 1
    /\ UNCHANGED <<db, reqs, last, client>>

(***************************************************************************)
(* Spec: the day records of one user.  Settings reads, day reads and day   *)
(* patches with every combination of fields, on two dates.                 *)
(***************************************************************************)
DayUsers == {"u1"}
RowPatches == {p \in DayPatches : "admissionDate" \notin DOMAIN p}

Next ==
    \/ \E u \in DayUsers : GetSettings(u)
    \/ \E u \in DayUsers, d \in Dates : GetDay(u, d)
    \/ \E u \in DayUsers, d \in Dates, p \in RowPatches : PatchDay(u, d, p)

Spec == Init /\ [][Next]_vars

(***************************************************************************)
(* Claims on the day records                                               *)
(***************************************************************************)
\* the day aggregate of (userId, date) in the store d, without its event and
\* question lists: what getDayData returns for mood, metricValues and notes
DayFieldsOf(d, userId, date) ==
    {[mood |-> agg.mood, metricValues |-> agg.metricValues, notes |-> agg.notes] :
        agg \in getDayData(d, userId, date).res}

\* C1: merge law.  When a day row exists for (user, date), updateDayData with
\* a metricValues patch stores the old map overlaid by the patch: every key of
\* the patch has the patch value, every other key of the old map keeps its
\* value, and no other key appears.
C1_MergeLaw ==
    \A u \in DayUsers, dt \in Dates, p \in DayPatches :
        ("metricValues" \in DOMAIN p /\ Len(DayRows(db, u, dt)) > 0) =>
            \A old \in DayFieldsOf(db, u, dt),
               new \in DayFieldsOf(updateDayData(db, u, dt, p), u, dt) :
                /\ DOMAIN new.metricValues =
                        (DOMAIN old.metricValues) \cup (DOMAIN p.metricValues)
                /\ \A k \in DOMAIN p.metricValues :
                        new.metricValues[k] = p.metricValues[k]
                /\ \A k \in (DOMAIN old.metricValues) \ (DOMAIN p.metricValues) :
                        new.metricValues[k] = old.metricValues[k]

\* a patch of metricValues alone has just been merged into an existing row,
\* which now holds a from one patch and b from another
C1_Witness ==
    /\ last.op = "updateDayData" /\ last.existing /\ last.fields = {"metricValues"}
    /\ \E i \in DOMAIN db.day_data :
            JSON_parse(db.day_data[i].metric_values) = [a |-> 1, b |-> 2]

\* the value of field f that the INSERT branch is to store for the patch p
FirstWriteValue(p, f, default) == IF f \in DOMAIN p THEN p[f] ELSE default

\* C5: first-write creation.  When no day row exists for (user, date),
\* updateDayData inserts exactly one row, leaves the other rows as they are,
\* and the new row has the patch value of each field present and mood null,
\* metricValues {}, notes "" for each field absent.
C5_FirstWrite ==
    \A u \in DayUsers, dt \in Dates, p \in DayPatches :
        Len(DayRows(db, u, dt)) = 0 =>
            LET post == updateDayData(db, u, dt, p)
            IN /\ Len(post.day_data) = Len(db.day_data) + 1
               /\ SubSeq(post.day_data, 1, Len(db.day_data)) = db.day_data
               /\ Len(DayRows(post, u, dt)) = 1
               /\ DayFieldsOf(post, u, dt) =
                    {[mood |-> FirstWriteValue(p, "mood", NULL),
                      metricValues |-> FirstWriteValue(p, "metricValues", <<>>),
                      notes |-> FirstWriteValue(p, "notes", "")]}

\* a patch of metricValues alone has just created the only row: it holds the
\* patch's map, and the defaults for mood and notes
C5_Witness ==
    /\ last.op = "updateDayData" /\ ~last.existing /\ last.fields = {"metricValues"}
    /\ Len(db.day_data) = 1
    /\ db.day_data[1].mood = NULL /\ db.day_data[1].notes = ""
    /\ JSON_parse(db.day_data[1].metric_values) = [a |-> 2, b |-> 2]

\* C6: on an existing day row updateDayData overwrites mood and notes only
\* when the field is in the patch: a field absent from the patch keeps its
\* stored value, and an explicit mood null clears the stored mood.
C6_PresentFieldsOnly ==
    \A u \in DayUsers, dt \in Dates, p \in DayPatches :
        Len(DayRows(db, u, dt)) > 0 =>
            \A old \in DayFieldsOf(db, u, dt),
               new \in DayFieldsOf(updateDayData(db, u, dt, p), u, dt) :
                /\ new.mood = IF "mood" \in DOMAIN p THEN p.mood ELSE old.mood
                /\ new.notes = IF "notes" \in DOMAIN p THEN p.notes ELSE old.notes
                /\ ("metricValues" \notin DOMAIN p) => new.metricValues = old.metricValues

\* a patch of mood alone has just been applied to an existing row: the mood is
\* null (cleared or kept), the note and the map written before are still there
C6_Witness ==
    /\ last.op = "updateDayData" /\ last.existing /\ last.fields = {"mood"}
    /\ \E i \in DOMAIN db.day_data :
            /\ db.day_data[i].mood = NULL
            /\ db.day_data[i].notes = "x"
            /\ JSON_parse(db.day_data[i].metric_values) = [a |-> 1]

\* C8: idempotence.  Applying the same patch to the same (user, date) twice
\* yields the same day aggregate as applying it once, whether or not the row
\* existed at the start.
C8_Idempotent ==
    \A u \in DayUsers, dt \in Dates, p \in DayPatches :
        LET once == updateDayData(db, u, dt, p)
            twice == updateDayData(once, u, dt, p)
        IN /\ getDayData(twice, u, dt).res = getDayData(once, u, dt).res
           /\ twice.day_data = once.day_data

\* a patch of all three row fields has just been applied to a row that was
\* there (as when the same patch is sent again)
C8_Witness ==
    /\ last.op = "updateDayData" /\ last.existing
    /\ last.fields = {"mood", "metricValues", "notes"}
    /\ \E i \in DOMAIN db.day_data :
            /\ db.day_data[i].mood = Some(3)
            /\ db.day_data[i].notes = "x"
            /\ JSON_parse(db.day_data[i].metric_values) = [b |-> 2]

(***************************************************************************)
(* SpecRead: two users; settings reads, day reads, day patches of notes    *)
(* and admissionDate, and one event and one question that can be added on  *)
(* any day (the primary keys e1 and q1 admit one row each).                *)
(***************************************************************************)
ReadPatches == {p \in DayPatches : DOMAIN p \subseteq {"notes", "admissionDate"}}
ReadPatchDates == {1}
ReadEvents == {[id |-> "e1", time |-> "09:00", type |-> "Bloods", note |-> "n"]}
ReadQuestions == {[id |-> "q1", text |-> "t", answered |-> TRUE]}

NextRead ==
    \/ \E u \in UserIds : GetSettings(u)
    \/ \E u \in UserIds, d \in Dates : GetDay(u, d)
    \/ \E u \in UserIds, d \in ReadPatchDates, p \in ReadPatches : PatchDay(u, d, p)
    \/ \E u \in UserIds, d \in Dates, e \in ReadEvents : PostEvent(u, d, e)
    \/ \E u \in UserIds, d \in Dates, q \in ReadQuestions : PostQuestion(u, d, q)

SpecRead == Init /\ [][NextRead]_vars

\* user?.admission_date ?? null, read from the table
AdmissionOf(d, userId) ==
    IF Len(UserRows(d, userId)) = 0 THEN NULL ELSE UserRows(d, userId)[1].admission_date

\* C3: getDayData for a (user, date) without a day row returns a complete
\* aggregate: the date, mood null, metricValues {}, notes "", and exactly the
\* events and the questions stored for that user and date (empty lists when
\* there are none).
C3_DefaultAggregate ==
    \A u \in UserIds, dt \in Dates :
        (\A r \in Range(db.day_data) : ~(r.user_id = u /\ r.date = dt)) =>
            LET r == getDayData(db, u, dt)
                evs == {e \in Range(db.events) : e.user_id = u /\ e.date = dt}
                qus == {q \in Range(db.questions) : q.user_id = u /\ q.date = dt}
            IN /\ r.res # {}
               /\ \A agg \in r.res :
                    /\ DOMAIN agg = {"date", "mood", "metricValues", "notes",
                                     "events", "questions"}
                    /\ agg.date = dt
                    /\ agg.mood = NULL
                    /\ agg.metricValues = <<>>
                    /\ agg.notes = ""
                    /\ Len(agg.events) = Cardinality(evs)
                    /\ Range(agg.events) =
                        {[id |-> e.id, time |-> e.time, type |-> e.type, note |-> e.note] :
                            e \in evs}
                    /\ Len(agg.questions) = Cardinality(qus)
                    /\ Range(agg.questions) =
                        {[id |-> q.id, text |-> q.text, answered |-> (q.answered = 1)] :
                            q \in qus}

\* a day without a row has just been read while the event is stored on
\* another day: the aggregate has the defaults, the question, and no event
C3_Witness ==
    /\ last.op = "getDayData" /\ ~last.existing
    /\ Len(db.events) = 1
    /\ last.res.mood = NULL /\ last.res.metricValues = <<>> /\ last.res.notes = ""
    /\ last.res.events = <<>>
    /\ last.res.questions = <<[id |-> "q1", text |-> "t", answered |-> TRUE]>>

\* C4: a read never mutates stored state.  getDayData leaves the day rows, the
\* events, the questions and every user's admission date as they are, so the
\* days with data are the same; what it may add is the users row of the
\* reading user and that user's default metrics and event types, and only
\* when the user had none.
C4_ReadOnly ==
    \A u \in UserIds, dt \in Dates :
        LET post == getDayData(db, u, dt).db
        IN /\ post.day_data = db.day_data
           /\ post.events = db.events
           /\ post.questions = db.questions
           /\ \A v \in UserIds :
                /\ AdmissionOf(post, v) = AdmissionOf(db, v)
                /\ getDaysWithData(post, v, 365) = getDaysWithData(db, v, 365)
           /\ SubSeq(post.users, 1, Len(db.users)) = db.users
           /\ \A i \in (Len(db.users) + 1)..Len(post.users) :
                post.users[i] = [id |-> u, admission_date |-> NULL]
           /\ (\E r \in Range(db.users) : r.id = u) => post.users = db.users
           /\ SubSeq(post.user_metrics, 1, Len(db.user_metrics)) = db.user_metrics
           /\ \A i \in (Len(db.user_metrics) + 1)..Len(post.user_metrics) :
                post.user_metrics[i].user_id = u
           /\ (\E r \in Range(db.user_metrics) : r.user_id = u) =>
                post.user_metrics = db.user_metrics
           /\ SubSeq(post.user_event_types, 1, Len(db.user_event_types)) =
                db.user_event_types
           /\ \A i \in (Len(db.user_event_types) + 1)..Len(post.user_event_types) :
                post.user_event_types[i].user_id = u
           /\ (\E r \in Range(db.user_event_types) : r.user_id = u) =>
                post.user_event_types = db.user_event_types

\* a day without a row has just been read, and the store still has its one
\* day row (of another day), a user with an admission date, and the event
C4_Witness ==
    /\ last.op = "getDayData" /\ ~last.existing
    /\ Len(db.day_data) = 1
    /\ Len(db.events) = 1
    /\ \E i \in DOMAIN db.users : db.users[i].admission_date = Some(1)

\* C7: admissionDate is one value per user.  updateDayData with admissionDate
\* in the patch (null included) sets the user's admission date, for every
\* target date and whether or not the day row exists, and getUserSettings
\* returns it; without admissionDate in the patch the user's admission date
\* stays; another user's admission date stays in both cases.
C7_AdmissionPerUser ==
    \A u \in UserIds, dt \in Dates, p \in ReadPatches :
        LET post == updateDayData(db, u, dt, p)
        IN /\ {s.admissionDate : s \in getUserSettings(post, u).res} =
                {IF "admissionDate" \in DOMAIN p THEN p.admissionDate
                 ELSE AdmissionOf(db, u)}
           /\ Cardinality({i \in DOMAIN post.users : post.users[i].id = u}) = 1
           /\ \A v \in UserIds \ {u} :
                /\ AdmissionOf(post, v) = AdmissionOf(db, v)
                /\ (\E r \in Range(db.users) : r.id = v) =>
                        {s.admissionDate : s \in getUserSettings(post, v).res} =
                            {AdmissionOf(db, v)}

\* a patch of admissionDate alone has just been applied where no day row was:
\* one user has the admission date, the other user has none
C7_Witness ==
    /\ last.op = "updateDayData" /\ ~last.existing /\ last.fields = {"admissionDate"}
    /\ Len(db.users) = 2
    /\ \E i, j \in DOMAIN db.users :
            /\ db.users[i].admission_date = Some(1)
            /\ db.users[j].admission_date = NULL

(***************************************************************************)
(* SpecEvents: one user adds, deletes and reads events while the clock     *)
(* runs.  created_at is the second in which the row is inserted.           *)
(***************************************************************************)
EventInputs ==
    {[id |-> "e1", time |-> "09:00", type |-> "Bloods"],
     [id |-> "e2", time |-> "08:00", type |-> "ECG", note |-> "n"],
     [id |-> "e3", time |-> "09:00", type |-> "Meal"]}

NextEvents ==
    \/ \E u \in DayUsers, d \in Dates, e \in EventInputs :
            Len(db.events) < MaxEvents /\ PostEvent(u, d, e)
    \/ \E u \in DayUsers, e \in EventInputs : DeleteEvent(u, e.id)
    \/ \E u \in DayUsers, d \in Dates : GetDay(u, d)
    \/ Tick

SpecEvents == Init /\ [][NextEvents]_vars

Reverse(s) == [i \in DOMAIN s |-> s[Len(s) + 1 - i]]
IdsOf(rows) == [i \in DOMAIN rows |-> rows[i].id]

\* C9: events are returned newest-first by creation order.  Whatever the
\* times at which the events of a (user, date) were added, every list that
\* getDayData can return is the reverse of the order in which they were added
\* (the order of the rows in the table).
C9_NewestFirst ==
    \A u \in DayUsers, dt \in Dates :
        \A agg \in getDayData(db, u, dt).res :
            IdsOf(agg.events) = Reverse(IdsOf(EventRows(db, u, dt)))

(***************************************************************************)
(* SpecQuestions: one user adds, answers, deletes and reads questions      *)
(* while the clock runs.                                                   *)
(***************************************************************************)
QuestionInputs ==
    {[id |-> "q1", text |-> "t", answered |-> FALSE],
     [id |-> "q2", text |-> "t", answered |-> FALSE],
     [id |-> "q3", text |-> "s", answered |-> TRUE]}

NextQuestions ==
    \/ \E u \in DayUsers, d \in Dates, q \in QuestionInputs :
            Len(db.questions) < MaxQuestions /\ PostQuestion(u, d, q)
    \/ \E u \in DayUsers, q \in QuestionInputs, answered \in BOOLEAN :
            PatchQuestion(u, q.id, answered)
    \/ \E u \in DayUsers, q \in QuestionInputs : DeleteQuestion(u, q.id)
    \/ \E u \in DayUsers, d \in Dates : GetDay(u, d)
    \/ Tick

SpecQuestions == Init /\ [][NextQuestions]_vars

RaceUser == "u1"
RaceDate == 1
RacePatches ==
    {[metricValues |-> [a |-> 1]], [metricValues |-> [b |-> 2]], [notes |-> "x"]}

InFlight(r) == reqs[r].pc \in {"queued", "selected"}

\* a server whose handlers could be suspended between the SELECT and the write
Interleaved(r) == TRUE

\* the event loop takes the next request only when no handler is running
RunToCompletion(r) == \A q \in DOMAIN reqs : q # r => reqs[q].pc # "selected"

\* a client sends PATCH /api/days/:date; overlapped records whether another
\* request was still on its way through the server at that moment
Send(r, data) ==
    /\ reqs[r].pc = "idle"
    /\ reqs' = [reqs EXCEPT ![r] =
                    [pc |-> "queued", data |-> data,
                     overlapped |-> \E q \in DOMAIN reqs : InFlight(q)]]
    /\ UNCHANGED <<db, now, last, client>>

\* the handler up to and including const existing = ... .get(userId, date)
Select(r) ==
    /\ reqs[r].pc = "queued"
    /\ RunToCompletion(r)
    /\ LET d1 == getOrCreateUser(db, RaceUser)
       IN /\ db' = d1
          /\ reqs' = [reqs EXCEPT ![r] =
                        [pc |-> "selected", data |-> reqs[r].data,
                         overlapped |-> reqs[r].overlapped,
                         existing |-> selectExisting(d1, RaceUser, RaceDate)]]
    /\ UNCHANGED <<now, last, client>>

\* the handler from if (existing) to the response
Write(r) ==
    /\ reqs[r].pc = "selected"
    /\ LET w == writeDayData(db, RaceUser, RaceDate, reqs[r].data, reqs[r].existing)
       IN /\ db' = IF w.threw THEN db ELSE getDayData(w.db, RaceUser, RaceDate).db
          /\ reqs' = [reqs EXCEPT ![r] =
                        [pc |-> "done", data |-> reqs[r].data,
                         overlapped |-> reqs[r].overlapped,
                         status |-> IF w.threw THEN 500 ELSE 200]]
          /\ last' = Done("updateDayData", reqs[r].existing # NULL, w.threw,
                          DOMAIN reqs[r].data, NoRes)
    /\ UNCHANGED <<now, client>>

NextRace ==
    \/ \E r \in DOMAIN reqs, data \in RacePatches : Send(r, data)
    \/ \E r \in DOMAIN reqs : Select(r)
    \/ \E r \in DOMAIN reqs : Write(r)

SpecRace == Init /\ [][NextRace]_vars

\* C2 as stated: the read of one request and the write of another can
\* interleave.  Whenever one request has read the stored row and not yet
\* written, a request waiting for the same day can read it too.
C2_ReadsInterleave ==
    \A r1, r2 \in DOMAIN reqs :
        (reqs[r1].pc = "selected" /\ reqs[r2].pc = "queued") => ENABLED Select(r2)

\* C2, for the one server process: concurrent PATCH requests for the same
\* (user, date) are handled one after the other, so no update is lost.  Every
\* answered request was answered 200, and every metricValues key it carried
\* is in the stored map with the value it carried.
C2_NoLostUpdate ==
    \A r \in DOMAIN reqs :
        reqs[r].pc = "done" =>
            /\ reqs[r].status = 200
            /\ "metricValues" \in DOMAIN reqs[r].data =>
                \A f \in DayFieldsOf(db, RaceUser, RaceDate) :
                    \A k \in DOMAIN reqs[r].data.metricValues :
                        /\ k \in DOMAIN f.metricValues
                        /\ f.metricValues[k] = reqs[r].data.metricValues[k]

\* two requests with different keys, the second sent while the first was on
\* its way, have both been answered, and the stored map has both keys
C2_Witness ==
    \E r1, r2 \in DOMAIN reqs :
        /\ reqs[r1].pc = "done" /\ reqs[r2].pc = "done"
        /\ reqs[r1].data = [metricValues |-> [a |-> 1]]
        /\ reqs[r2].data = [metricValues |-> [b |-> 2]]
        /\ reqs[r2].overlapped
        /\ \E i \in DOMAIN db.day_data :
                JSON_parse(db.day_data[i].metric_values) = [a |-> 1, b |-> 2]

(***************************************************************************)
(* The handlers of the settings API.  Each records the user and the id of  *)
(* its request.                                                            *)
(***************************************************************************)
Target(userId, id) == [userId |-> userId, id |-> id]

\* POST /api/settings/metrics
PostMetric(userId, metric) ==
    /\ db' = addMetric(db, userId, metric).db
    /\ last' = Done("addMetric", FALSE, FALSE, {},
                    Target(userId, addMetric(db, userId, metric).res.id))
    /\ UNCHANGED <<now, reqs, client>>

\* PUT /api/settings/metrics/:id
PutMetric(userId, metric) ==
    /\ db' = updateMetric(db, userId, metric)
    /\ last' = Done("updateMetric", FALSE, FALSE, {}, Target(userId, metric.id))
    /\ UNCHANGED <<now, reqs, client>>

\* DELETE /api/settings/metrics/:id
DeleteMetric(userId, metricId) ==
    /\ db' = deleteMetric(db, userId, metricId)
    /\ last' = Done("deleteMetric", FALSE, FALSE, {}, Target(userId, metricId))
    /\ UNCHANGED <<now, reqs, client>>

\* POST /api/settings/event-types
PostEventType(userId, eventType) ==
    /\ db' = addEventType(db, userId, eventType).db
    /\ last' = Done("addEventType", FALSE, FALSE, {},
                    Target(userId, addEventType(db, userId, eventType).res.id))
    /\ UNCHANGED <<now, reqs, client>>

\* PUT /api/settings/event-types/:id
PutEventType(userId, eventType) ==
    /\ db' = updateEventType(db, userId, eventType)
    /\ last' = Done("updateEventType", FALSE, FALSE, {}, Target(userId, eventType.id))
    /\ UNCHANGED <<now, reqs, client>>

\* DELETE /api/settings/event-types/:id
DeleteEventType(userId, eventTypeId) ==
    /\ db' = deleteEventType(db, userId, eventTypeId)
    /\ last' = Done("deleteEventType", FALSE, FALSE, {}, Target(userId, eventTypeId))
    /\ UNCHANGED <<now, reqs, client>>

(***************************************************************************)
(* SpecNoop: two users read their settings and add an event and a question *)
(* each; the user u1 then updates and deletes by id, with its own ids, the *)
(* ids of the other user and an id that no row has.                        *)
(***************************************************************************)
NoopActor == "u1"
NoopDate == 1
NoopEvents ==
    [u1 |-> [id |-> "e1", time |-> "09:00", type |-> "Bloods"],
     u2 |-> [id |-> "e2", time |-> "09:00", type |-> "Bloods"]]
NoopQuestions ==
    [u1 |-> [id |-> "q1", text |-> "t", answered |-> FALSE],
     u2 |-> [id |-> "q2", text |-> "t", answered |-> FALSE]]
\* the ids of the first metric and the first event type of the user seeded
\* first and of the user seeded second, and an id that no row has
MetricIdInputs ==
    {generateId(1), generateId(1 + Len(DEFAULT_METRICS) + Len(DEFAULT_EVENT_TYPES)), "none"}
EventTypeIdInputs ==
    {generateId(1 + Len(DEFAULT_METRICS)),
     generateId(1 + 2 * Len(DEFAULT_METRICS) + Len(DEFAULT_EVENT_TYPES)), "none"}
EventIdInputs == {"e1", "e2", "none"}
QuestionIdInputs == {"q1", "q2", "none"}
MetricUpdate(id) ==
    [id |-> id, name |-> "Pain", icon |-> "U+1F915",
     minValue |-> 0, maxValue |-> 5, defaultValue |-> 1,
     sortOrder |-> 0]
EventTypeUpdate(id) == [id |-> id, name |-> "Obs", icon |-> "U+1FA7A", sortOrder |-> 0]

NextNoop ==
    \/ \E u \in UserIds : GetSettings(u)
    \/ \E u \in UserIds : PostEvent(u, NoopDate, NoopEvents[u])
    \/ \E u \in UserIds : PostQuestion(u, NoopDate, NoopQuestions[u])
    \/ \E id \in EventIdInputs : DeleteEvent(NoopActor, id)
    \/ \E id \in QuestionIdInputs : PatchQuestion(NoopActor, id, TRUE)
    \/ \E id \in QuestionIdInputs : DeleteQuestion(NoopActor, id)
    \/ \E id \in MetricIdInputs : PutMetric(NoopActor, MetricUpdate(id))
    \/ \E id \in MetricIdInputs : DeleteMetric(NoopActor, id)
    \/ \E id \in EventTypeIdInputs : PutEventType(NoopActor, EventTypeUpdate(id))
    \/ \E id \in EventTypeIdInputs : DeleteEventType(NoopActor, id)

SpecNoop == Init /\ [][NextNoop]_vars

\* user u owns a row of the table with that id
Owns(rows, u, id) == \E r \in Range(rows) : r.id = id /\ r.user_id = u

\* C11: silent no-op.  deleteEvent, deleteQuestion, updateQuestion,
\* deleteMetric, updateMetric, deleteEventType and updateEventType with an id
\* that no row has, or that a row of another user has, leave the whole store
\* as it is (the other user's row included), and the handler answers success.
C11_SilentNoOp ==
    /\ last.op \in {"deleteEvent", "deleteQuestion", "updateQuestion", "deleteMetric",
                    "updateMetric", "deleteEventType", "updateEventType"} => ~last.threw
    /\ \A u \in UserIds :
        /\ \A id \in EventIdInputs :
                ~Owns(db.events, u, id) => deleteEvent(db, u, id) = db
        /\ \A id \in QuestionIdInputs, answered \in BOOLEAN :
                ~Owns(db.questions, u, id) =>
                    /\ deleteQuestion(db, u, id) = db
                    /\ updateQuestion(db, u, id, answered) = db
        /\ \A id \in MetricIdInputs :
                ~Owns(db.user_metrics, u, id) =>
                    /\ deleteMetric(db, u, id) = db
                    /\ updateMetric(db, u, MetricUpdate(id)) = db
        /\ \A id \in EventTypeIdInputs :
                ~Owns(db.user_event_types, u, id) =>
                    /\ deleteEventType(db, u, id) = db
                    /\ updateEventType(db, u, EventTypeUpdate(id)) = db

\* u1 has just sent an update of a metric with the id of a metric of u2,
\* which is still as it was seeded
C11_Witness ==
    /\ last.op = "updateMetric" /\ ~last.threw
    /\ last.res.userId = "u1"
    /\ \E r \in Range(db.user_metrics) :
            /\ r.id = last.res.id /\ r.user_id = "u2"
            /\ r.name = "Pain" /\ r.max_value = 10

(***************************************************************************)
(* SpecSettings: the settings of two users.  Both read their settings; u1  *)
(* deletes metrics of its own; u2 adds metrics, one of them with minValue  *)
(* above maxValue, which CreateMetricSchema accepts.                       *)
(***************************************************************************)
MetricInputs ==
    {[name |-> "Sleep", icon |-> "U+1F634",
      minValue |-> 0, maxValue |-> 10, defaultValue |-> 5, sortOrder |-> 3],
     [name |-> "Temp", icon |-> "U+1F4CA",
      minValue |-> 50, maxValue |-> 10, defaultValue |-> 0, sortOrder |-> 4]}
MetricPosters == {"u2"}

\* generateId has been called at most MaxIds times in the store d
WithinIds(d) == d.nextId <= MaxIds + 1

NextSettings ==
    \/ \E u \in UserIds : WithinIds(getUserSettings(db, u).db) /\ GetSettings(u)
    \/ \E u \in MetricPosters, m \in MetricInputs :
            /\ WithinIds(addMetric(db, u, m).db)
            /\ Len(MetricRows(db, u)) < MaxUserMetrics
            /\ PostMetric(u, m)
    \/ \E u \in DayUsers, i \in DOMAIN db.user_metrics :
            db.user_metrics[i].user_id = u /\ DeleteMetric(u, db.user_metrics[i].id)

SpecSettings == Init /\ [][NextSettings]_vars

\* no row of any table refers to the user
NeverReferenced(d, userId) ==
    /\ \A r \in Range(d.users) : r.id # userId
    /\ \A r \in Range(d.user_metrics) \cup Range(d.user_event_types) \cup Range(d.day_data)
                \cup Range(d.events) \cup Range(d.questions) : r.user_id # userId

\* C12: fresh seeding.  The first getUserSettings of a user that no row
\* refers to returns exactly the metrics Pain, Anxiety, Energy with sortOrder
\* 0, 1, 2 and exactly the event types Obs done, Bloods, ECG, Scan/X-ray,
\* Doctor round, Medication, Meal with sortOrder 0..6, in that order, and a
\* null admissionDate.
C12_FreshSeeding ==
    \A u \in UserIds :
        NeverReferenced(db, u) =>
            /\ getUserSettings(db, u).res # {}
            /\ \A s \in getUserSettings(db, u).res :
                /\ [i \in DOMAIN s.metrics |-> s.metrics[i].name] =
                        <<"Pain", "Anxiety", "Energy">>
                /\ [i \in DOMAIN s.metrics |-> s.metrics[i].sortOrder] = <<0, 1, 2>>
                /\ [i \in DOMAIN s.eventTypes |-> s.eventTypes[i].name] =
                        <<"Obs done", "Bloods", "ECG", "Scan/X-ray", "Doctor round",
                          "Medication", "Meal">>
                /\ [i \in DOMAIN s.eventTypes |-> s.eventTypes[i].sortOrder] =
                        <<0, 1, 2, 3, 4, 5, 6>>
                /\ s.admissionDate = NULL

\* the settings of a second user have just been read for the first time: both
\* users have their three metrics and seven event types
C12_Witness ==
    /\ last.op = "getUserSettings"
    /\ Len(db.users) = 2
    /\ Len(db.user_metrics) = 6
    /\ Len(db.user_event_types) = 14
    /\ db.nextId = 21

\* C13: re-seed quirk.  getUserSettings of a user with no metric inserts the
\* three default metrics and returns exactly those; for a user with a metric
\* it inserts none and returns exactly the metrics the user has.  The metrics
\* of the other users stay in both cases.
C13_Reseed ==
    \A u \in UserIds :
        LET r == getUserSettings(db, u)
            before == MetricRows(db, u)
            after == MetricRows(r.db, u)
        IN /\ \A s \in r.res :
                {m.id : m \in Range(s.metrics)} = {m.id : m \in Range(after)}
           /\ Len(before) = 0 =>
                /\ [i \in DOMAIN after |-> after[i].name] = <<"Pain", "Anxiety", "Energy">>
                /\ \A s \in r.res :
                    [i \in DOMAIN s.metrics |-> s.metrics[i].name] =
                        <<"Pain", "Anxiety", "Energy">>
           /\ Len(before) > 0 => after = before
           /\ \A v \in UserIds \ {u} : MetricRows(r.db, v) = MetricRows(db, v)

\* the settings of u1 have just been read after all its metrics were deleted:
\* u1 has the metric Pain under the id of the eleventh call of generateId
C13_Witness ==
    /\ last.op = "getUserSettings"
    /\ \E r \in Range(db.user_metrics) :
            r.user_id = "u1" /\ r.name = "Pain" /\ r.id = generateId(11)
    /\ Len(MetricRows(db, "u1")) = 3

\* C14: getOrCreateUser is idempotent.  Calling it twice for a user leaves
\* the store that calling it once leaves, with one users row for the user;
\* the row of a user created by the call has a null admission date.
C14_GetOrCreateUserIdempotent ==
    \A u \in UserIds :
        LET once == getOrCreateUser(db, u)
            twice == getOrCreateUser(once, u)
        IN /\ twice = once
           /\ Cardinality({i \in DOMAIN once.users : once.users[i].id = u}) = 1
           /\ (\A r \in Range(db.users) : r.id # u) =>
                \A r \in Range(once.users) : r.id = u => r.admission_date = NULL

\* the settings of the only user have just been read, and whatever the number
\* of reads the store has one users row, three metrics and seven event types
C14_Witness ==
    /\ last.op = "getUserSettings"
    /\ db.users = <<[id |-> "u1", admission_date |-> NULL]>>
    /\ Len(db.user_metrics) = 3 /\ Len(db.user_event_types) = 7
    /\ db.nextId = 11

\* C18: after any sequence of requests every stored metric has
\* minValue < maxValue and minValue <= defaultValue <= maxValue.
C18_MetricRanges ==
    \A r \in Range(db.user_metrics) :
        /\ r.min_value < r.max_value
        /\ r.min_value <= r.default_value
        /\ r.default_value <= r.max_value

\* C19: after any sequence of requests every metric, event type, day record,
\* event and question row is owned by a user that has a row in users.
C19_OwnersExist ==
    \A r \in Range(db.user_metrics) \cup Range(db.user_event_types) \cup Range(db.day_data)
                \cup Range(db.events) \cup Range(db.questions) :
        \E u \in Range(db.users) : u.id = r.user_id

(***************************************************************************)
(* SpecFaults: store statements that fail.  A statement of better-sqlite3  *)
(* throws when SQLite reports an error (SQLITE_FULL, SQLITE_IOERR,         *)
(* SQLITE_BUSY); the functions of db.ts open no transaction, so every      *)
(* statement that ran before it has been committed on its own, and the     *)
(* handler answers 500.                                                    *)
(***************************************************************************)
\* getOrCreateUser when the insert of the k-th default metric throws: the
\* users row and the metrics before the k-th are stored (the id generated for
\* the k-th is in no row)
getOrCreateUserFailingAt(d, userId, k) ==
    LET d1 == InsertUser(d, userId)
    IN [d1 EXCEPT
            !.user_metrics = @ \o
                [i \in 1..(k - 1) |->
                    [id |-> generateId(d1.nextId + i - 1), user_id |-> userId,
                     name |-> DEFAULT_METRICS[i].name, icon |-> DEFAULT_METRICS[i].icon,
                     min_value |-> DEFAULT_METRICS[i].minValue,
                     max_value |-> DEFAULT_METRICS[i].maxValue,
                     default_value |-> DEFAULT_METRICS[i].defaultValue,
                     sort_order |-> DEFAULT_METRICS[i].sortOrder]],
            !.nextId = @ + k - 1]

\* the statements of updateDayData that can throw for the patch: the write of
\* the day row (an INSERT, or an UPDATE when a row field is in the patch) and
\* the write of the admission date
FaultPoints(d, userId, date, data) ==
    (IF Len(DayRows(d, userId, date)) = 0
        \/ DOMAIN data \cap {"mood", "metricValues", "notes"} # {}
     THEN {"dayRow"} ELSE {})
    \cup (IF "admissionDate" \in DOMAIN data THEN {"admissionDate"} ELSE {})

\* updateDayData when the statement at `point` throws
updateDayDataFailingAt(d, userId, date, data, point) ==
    LET d1 == getOrCreateUser(d, userId)
        rowData == Restrict(data, DOMAIN data \ {"admissionDate"})
    IN IF point = "dayRow" THEN d1
       ELSE writeDayData(d1, userId, date, rowData, selectExisting(d1, userId, date)).db

\* what a failed request records: the store before it
Before(d) == [pre |-> d]

\* GET /api/settings, answered 500
GetSettingsFails(userId, k) ==
    /\ Len(MetricRows(db, userId)) = 0
    /\ db' = getOrCreateUserFailingAt(db, userId, k)
    /\ last' = Done("getUserSettings", FALSE, TRUE, {}, Before(db))
    /\ UNCHANGED <<now, reqs, client>>

\* PATCH /api/days/:date, answered 500
PatchDayFails(userId, date, data, point) ==
    /\ point \in FaultPoints(getOrCreateUser(db, userId), userId, date, data)
    /\ db' = updateDayDataFailingAt(db, userId, date, data, point)
    /\ last' = Done("updateDayData", Len(DayRows(db, userId, date)) > 0, TRUE, DOMAIN data,
                    Before(db))
    /\ UNCHANGED <<now, reqs, client>>

FaultPatches ==
    {[notes |-> "x", admissionDate |-> Some(1)], [mood |-> Some(3)],
     [admissionDate |-> NULL]}

NextFaults ==
    \/ \E u \in UserIds : GetSettings(u)
    \/ \E u \in UserIds, k \in DOMAIN DEFAULT_METRICS : GetSettingsFails(u, k)
    \/ \E u \in DayUsers, d \in Dates, p \in FaultPatches : PatchDay(u, d, p)
    \/ \E u \in DayUsers, d \in Dates, p \in FaultPatches,
          point \in {"dayRow", "admissionDate"} : PatchDayFails(u, d, p, point)

SpecFaults == Init /\ [][NextFaults]_vars

\* C15: each operation is all-or-nothing.  When updateDayData or
\* getOrCreateUser has failed at one of its store statements, the store is as
\* it was before the operation.
C15_AllOrNothing ==
    (last.threw /\ last.op \in {"updateDayData", "getUserSettings"}) => db = last.res.pre

(***************************************************************************)
(* Requests as values: what a handler leaves in the store and answers, as  *)
(* a function of the store before it.  Used to compare the two orders of   *)
(* two requests.                                                           *)
(***************************************************************************)
\* a settings object without the generated ids of its metrics and event types
\* (generateId draws them from the time and Math.random)
SettingsBody(st) ==
    [metrics |-> [i \in DOMAIN st.metrics |->
                    Restrict(st.metrics[i], DOMAIN st.metrics[i] \ {"id"})],
     eventTypes |-> [i \in DOMAIN st.eventTypes |->
                    Restrict(st.eventTypes[i], DOMAIN st.eventTypes[i] \ {"id"})],
     admissionDate |-> st.admissionDate]

\* the store, the status and the possible bodies after the handler of q ran on
\* the store d at the time t
Handle(d, t, q) ==
    CASE q.kind = "getSettings" ->
            [db |-> getUserSettings(d, q.userId).db, status |-> 200,
             body |-> {SettingsBody(st) : st \in getUserSettings(d, q.userId).res}]
      [] q.kind = "getDay" ->
            [db |-> getDayData(d, q.userId, q.date).db, status |-> 200,
             body |-> getDayData(d, q.userId, q.date).res]
      [] q.kind = "patchDay" ->
            LET d1 == updateDayData(d, q.userId, q.date, q.data)
            IN [db |-> getDayData(d1, q.userId, q.date).db, status |-> 200,
                body |-> getDayData(d1, q.userId, q.date).res]
      [] q.kind = "postEvent" ->
            LET r == addEvent(d, t, q.userId, q.date, q.event)
            IN IF r.threw THEN [db |-> d, status |-> 500, body |-> {}]
               ELSE [db |-> getDayData(r.db, q.userId, q.date).db, status |-> 200,
                     body |-> getDayData(r.db, q.userId, q.date).res]
      [] q.kind = "postQuestion" ->
            LET r == addQuestion(d, t, q.userId, q.date, q.question)
            IN IF r.threw THEN [db |-> d, status |-> 500, body |-> {}]
               ELSE [db |-> getDayData(r.db, q.userId, q.date).db, status |-> 200,
                     body |-> getDayData(r.db, q.userId, q.date).res]

\* the content of the store: the rows of each table without their order, and
\* the metrics and event types without their generated ids
Content(d) ==
    [users |-> Range(d.users),
     user_metrics |-> {Restrict(r, DOMAIN r \ {"id"}) : r \in Range(d.user_metrics)},
     user_event_types |-> {Restrict(r, DOMAIN r \ {"id"}) : r \in Range(d.user_event_types)},
     day_data |-> Range(d.day_data),
     events |-> Range(d.events),
     questions |-> Range(d.questions)]

\* the requests on days that a user can send in SpecRead
DayRequests(u) ==
    {[kind |-> "patchDay", userId |-> u, date |-> dt, data |-> p] :
        dt \in Dates, p \in ReadPatches}
    \cup {[kind |-> "postEvent", userId |-> u, date |-> dt, event |-> e] :
        dt \in Dates, e \in ReadEvents}
    \cup {[kind |-> "postQuestion", userId |-> u, date |-> dt, question |-> q] :
        dt \in Dates, q \in ReadQuestions}
ReadRequests(u) ==
    {[kind |-> "getSettings", userId |-> u]}
    \cup {[kind |-> "getDay", userId |-> u, date |-> dt] : dt \in Dates}

\* the two requests answer the same and leave the same content in either order
Commute(d, t, q1, q2) ==
    LET a1 == Handle(d, t, q1)
        a2 == Handle(a1.db, t, q2)
        b2 == Handle(d, t, q2)
        b1 == Handle(b2.db, t, q1)
    IN /\ Content(a2.db) = Content(b1.db)
       /\ a1.status = b1.status /\ a1.body = b1.body
       /\ a2.status = b2.status /\ a2.body = b2.body

\* C16: requests of different users are independent.  Two requests of two
\* users (addEvent and addQuestion with the ids the clients chose included)
\* get the same answers and leave the same store in either order.
C16_UsersIndependent ==
    \A u1, u2 \in UserIds :
        u1 # u2 =>
            \A q1 \in DayRequests(u1) \cup ReadRequests(u1),
               q2 \in DayRequests(u2) \cup ReadRequests(u2) :
                Commute(db, now, q1, q2)

(***************************************************************************)
(* SpecDates: one user writes to two dates: day patches (notes, a metric   *)
(* value, the admission date), an event and a question.                    *)
(***************************************************************************)
DatePatches ==
    {[notes |-> "x"], [metricValues |-> [a |-> 1]],
     [admissionDate |-> Some(1)], [admissionDate |-> NULL]}
DateEvents ==
    {[id |-> "e1", time |-> "09:00", type |-> "Bloods"],
     [id |-> "e2", time |-> "09:00", type |-> "Bloods"]}
DateQuestions == {[id |-> "q1", text |-> "t", answered |-> FALSE]}

NextDates ==
    \/ \E u \in DayUsers, d \in Dates, p \in DatePatches : PatchDay(u, d, p)
    \/ \E u \in DayUsers, d \in Dates, e \in DateEvents : e.id = "e1" /\ PostEvent(u, d, e)
    \/ \E u \in DayUsers, d \in Dates, q \in DateQuestions : PostQuestion(u, d, q)

SpecDates == Init /\ [][NextDates]_vars

\* the PatchDay, AddEvent and AddQuestion requests of user u for the date dt
DateRequests(u, dt) ==
    {[kind |-> "patchDay", userId |-> u, date |-> dt, data |-> p] : p \in DatePatches}
    \cup {[kind |-> "postEvent", userId |-> u, date |-> dt, event |-> e] : e \in DateEvents}
    \cup {[kind |-> "postQuestion", userId |-> u, date |-> dt, question |-> q] :
            q \in DateQuestions}

\* the two requests answer the same in either order and leave the same
\* content, the same aggregates for both dates and the same settings
CommuteOnDates(d, t, q1, q2) ==
    LET a == Handle(Handle(d, t, q1).db, t, q2).db
        b == Handle(Handle(d, t, q2).db, t, q1).db
    IN /\ Commute(d, t, q1, q2)
       /\ \A dt \in {q1.date, q2.date} :
            getDayData(a, q1.userId, dt).res = getDayData(b, q1.userId, dt).res
       /\ {SettingsBody(st) : st \in getUserSettings(a, q1.userId).res} =
            {SettingsBody(st) : st \in getUserSettings(b, q1.userId).res}

\* C17 as stated: any two PatchDay, AddEvent or AddQuestion requests of one
\* user for two different dates leave the same store, the same aggregates and
\* the same settings in either order.
C17_DatesIndependent ==
    \A u \in DayUsers, d1, d2 \in Dates :
        d1 < d2 =>
            \A q1 \in DateRequests(u, d1), q2 \in DateRequests(u, d2) :
                CommuteOnDates(db, now, q1, q2)

\* both requests add an event with the same id, or a question with the same id
SameNewId(q1, q2) ==
    \/ q1.kind = "postEvent" /\ q2.kind = "postEvent" /\ q1.event.id = q2.event.id
    \/ q1.kind = "postQuestion" /\ q2.kind = "postQuestion"
        /\ q1.question.id = q2.question.id

\* both requests set the admission date, to different values
AdmissionConflict(q1, q2) ==
    /\ q1.kind = "patchDay" /\ q2.kind = "patchDay"
    /\ "admissionDate" \in DOMAIN q1.data /\ "admissionDate" \in DOMAIN q2.data
    /\ q1.data.admissionDate # q2.data.admissionDate

\* C17, amended: two PatchDay, AddEvent or AddQuestion requests of one user
\* for two different dates leave the same store, aggregates and settings in
\* either order unless both set the admission date to different values or
\* both add an event (a question) with the same id.  Of two patches that set
\* different admission dates the later one decides the user's admission
\* date; of two requests that add the same id the later one is answered 500.
C17_DatesIndependentUnlessShared ==
    \A u \in DayUsers, d1, d2 \in Dates :
        d1 < d2 =>
            \A q1 \in DateRequests(u, d1), q2 \in DateRequests(u, d2) :
                LET a1 == Handle(db, now, q1)
                    a2 == Handle(a1.db, now, q2)
                    b2 == Handle(db, now, q2)
                    b1 == Handle(b2.db, now, q1)
                IN IF SameNewId(q1, q2)
                   THEN /\ a2.status = 500 /\ a2.db = a1.db
                        /\ b1.status = 500 /\ b1.db = b2.db
                   ELSE IF AdmissionConflict(q1, q2)
                   THEN /\ AdmissionOf(a2.db, u) = q2.data.admissionDate
                        /\ AdmissionOf(b1.db, u) = q1.data.admissionDate
                   ELSE CommuteOnDates(db, now, q1, q2)

\* the user has written to both dates: each has a day row, date 1 has the
\* event and date 2 has the question
C17_Witness ==
    /\ last.op \in {"updateDayData", "addEvent", "addQuestion"}
    /\ \E i, j \in DOMAIN db.day_data :
            /\ db.day_data[i].date = 1 /\ db.day_data[i].notes = "x"
            /\ db.day_data[j].date = 2
            /\ JSON_parse(db.day_data[j].metric_values) = [a |-> 1]
    /\ \E e \in Range(db.events) : e.date = 1
    /\ \E q \in Range(db.questions) : q.date = 2

\* the table has at most one row for each (user, date)
UniqueDays(d) ==
    \A i, j \in DOMAIN d.day_data :
        (d.day_data[i].user_id = d.day_data[j].user_id
            /\ d.day_data[i].date = d.day_data[j].date) => i = j

\* C20: at most one day row per (user, date).  The store never has two day
\* rows for the same user and date, and no write of updateDayData makes a
\* second one: neither a call run from start to end, nor the write of a call
\* whose SELECT ran before another call inserted the row (existing undefined
\* although the row is there), which throws and adds nothing.
C20_UniqueDayRow ==
    /\ UniqueDays(db)
    /\ \A data \in RacePatches :
        /\ UniqueDays(updateDayData(db, RaceUser, RaceDate, data))
        /\ \A existing \in {NULL, selectExisting(db, RaceUser, RaceDate)} :
            UniqueDays(writeDayData(db, RaceUser, RaceDate, data, existing).db)

\* a request found the row that an earlier request inserted and updated it:
\* the one row has the note and the value a
C20_Witness ==
    /\ last.op = "updateDayData" /\ last.existing
    /\ Len(db.day_data) = 1
    /\ db.day_data[1].notes = "x"
    /\ JSON_parse(db.day_data[1].metric_values) = [a |-> 1]
    /\ \E r \in DOMAIN reqs : reqs[r].pc = "queued"

(***************************************************************************)
(* SpecDays: the listing of the days with data.  User u1 writes notes to   *)
(* three dates, adds an event and a question; user u2 writes to one date;  *)
(* both list their days.                                                   *)
(***************************************************************************)
\* GET /api/days: the limit is validated, then getDaysWithData answers
GetDays(userId, limit) ==
    /\ db' = db
    /\ last' = Done("getDaysWithData", FALSE, FALSE, {},
                   [userId |-> userId, limit |-> limit,
                    days |-> getDaysWithData(db, userId, limit)])
    /\ UNCHANGED <<now, reqs, client>>

ListDates == {1, 2, 3}
OtherUserDates == {3}
\* limits within LimitQuerySchema (1..365); 30 is its default
DayLimits == {1, 2, 30}
ListEvents == {[id |-> "e1", time |-> "09:00", type |-> "Bloods"]}
ListQuestions == {[id |-> "q1", text |-> "t", answered |-> FALSE]}

NextDays ==
    \/ \E d \in ListDates : PatchDay("u1", d, [notes |-> "x"])
    \/ \E d \in OtherUserDates : PatchDay("u2", d, [notes |-> "x"])
    \/ \E d \in ListDates, e \in ListEvents : PostEvent("u1", d, e)
    \/ \E d \in ListDates, q \in ListQuestions : PostQuestion("u1", d, q)
    \/ \E u \in UserIds, l \in DayLimits : GetDays(u, l)

SpecDays == Init /\ [][NextDays]_vars

\* the dates on which the user has a day row
DatesWithRow(d, userId) == {dt \in ListDates : Len(DayRows(d, userId, dt)) > 0}

\* C21: getDaysWithData(user, limit) returns the dates for which the user has
\* a day row, each once, in descending order, and at most limit of them (the
\* latest ones); a date that has only events or questions and no day row is
\* not in the list.
C21_DaysWithData ==
    \A u \in UserIds, l \in DayLimits :
        LET r == getDaysWithData(db, u, l)
            have == DatesWithRow(db, u)
        IN /\ \A i, j \in DOMAIN r : i < j => r[i] > r[j]
           /\ Range(r) \subseteq have
           /\ Len(r) = IF Cardinality(have) < l THEN Cardinality(have) ELSE l
           /\ \A x \in have \ Range(r), y \in Range(r) : x < y

\* u1 has day rows for the dates 1 and 2 and an event on date 3, which has no
\* day row; the listing with limit 1 answered the date 2 alone
C21_Witness ==
    /\ last.op = "getDaysWithData"
    /\ last.res.userId = "u1" /\ last.res.limit = 1
    /\ last.res.days = <<2>>
    /\ DatesWithRow(db, "u1") = {1, 2}
    /\ \E e \in Range(db.events) : e.user_id = "u1" /\ e.date = 3

(***************************************************************************)
(* The settings round trips, over SpecSettings                             *)
(***************************************************************************)
\* the metrics of the settings st that have the id
MetricsWithId(st, id) == {i \in DOMAIN st.metrics : st.metrics[i].id = id}

\* C22: addMetric round trip.  After addMetric(user, data) has returned the
\* metric m, getUserSettings(user) contains one metric with the id m.id, whose
\* name, icon, minValue, maxValue, defaultValue and sortOrder are those of
\* data, and m.id is the id of no metric that existed before the call.
C22_AddMetricRoundTrip ==
    \A u \in UserIds, data \in MetricInputs :
        LET r == addMetric(db, u, data)
            m == r.res
        IN /\ \A old \in Range(db.user_metrics) : old.id # m.id
           /\ Restrict(m, DOMAIN data) = data
           /\ \A st \in getUserSettings(r.db, u).res :
                /\ Cardinality(MetricsWithId(st, m.id)) = 1
                /\ \A i \in MetricsWithId(st, m.id) :
                        Restrict(st.metrics[i], DOMAIN data) = data

\* u2, who had the metric Sleep, has added the metric Temp next to the seeded
\* metrics of u1: its row carries the id that was returned and the data
C22_Witness ==
    /\ last.op = "addMetric" /\ last.res.userId = "u2"
    /\ \E r \in Range(db.user_metrics) : r.user_id = "u1"
    /\ \E r \in Range(db.user_metrics) : r.user_id = "u2" /\ r.name = "Sleep"
    /\ \E r \in Range(db.user_metrics) :
            /\ r.id = last.res.id /\ r.user_id = "u2"
            /\ r.name = "Temp" /\ r.icon = "U+1F4CA" /\ r.min_value = 50
            /\ r.max_value = 10 /\ r.default_value = 0 /\ r.sort_order = 4

\* the list is ascending by sortOrder
AscendingBySortOrder(list) ==
    \A i, j \in DOMAIN list : i < j => list[i].sortOrder <= list[j].sortOrder

\* every answer that getUserSettings can give for the user in the store d has
\* its metrics and its event types ascending by sortOrder
SettingsOrdered(d, userId) ==
    \A st \in getUserSettings(d, userId).res :
        AscendingBySortOrder(st.metrics) /\ AscendingBySortOrder(st.eventTypes)

\* sort orders for an update: that of the first default, and one after the last
SortOrderInputs == {0, 9}

\* C23: getUserSettings returns the metrics and the event types in ascending
\* sortOrder (for positions i < j, sortOrder[i] <= sortOrder[j]), after any
\* sequence of add, update and delete operations: in every reachable store,
\* and in the store after one more addMetric, updateMetric, deleteMetric,
\* addEventType, updateEventType or deleteEventType of the user.
C23_SettingsOrdered ==
    \A u \in UserIds :
        /\ SettingsOrdered(db, u)
        /\ \A m \in MetricInputs : SettingsOrdered(addMetric(db, u, m).db, u)
        /\ \A so \in SortOrderInputs :
                SettingsOrdered(addEventType(db, u, [EventTypeUpdate("") EXCEPT
                                                        !.sortOrder = so]).db, u)
        /\ \A r \in Range(MetricRows(db, u)) :
            /\ SettingsOrdered(deleteMetric(db, u, r.id), u)
            /\ \A so \in SortOrderInputs :
                SettingsOrdered(updateMetric(db, u, [MetricUpdate(r.id) EXCEPT
                                                        !.sortOrder = so]), u)
        /\ \A r \in Range(EventTypeRows(db, u)) :
            /\ SettingsOrdered(deleteEventType(db, u, r.id), u)
            /\ \A so \in SortOrderInputs :
                SettingsOrdered(updateEventType(db, u, [EventTypeUpdate(r.id) EXCEPT
                                                        !.sortOrder = so]), u)

\* u2 added Temp (sortOrder 4) and then Sleep (sortOrder 3), so that the table
\* holds them in the other order, and has read its settings since
C23_Witness ==
    /\ last.op = "getUserSettings"
    /\ Len(UserRows(db, "u2")) = 1 /\ Len(UserRows(db, "u1")) = 0
    /\ [i \in DOMAIN MetricRows(db, "u2") |-> MetricRows(db, "u2")[i].name]
            = <<"Temp", "Sleep">>

(***************************************************************************)
(* SpecMetricDelete: user u1 reads the settings, records values under the  *)
(* ids of the seeded metrics, deletes metrics and reads the days.          *)
(***************************************************************************)
\* values for the metrics that the first seeding gives the ids id1 and id2
MetricIdPatches == {[metricValues |-> [id1 |-> 7]], [metricValues |-> [id2 |-> 3]]}

NextMetricDelete ==
    \/ \E u \in DayUsers : WithinIds(getUserSettings(db, u).db) /\ GetSettings(u)
    \/ \E u \in DayUsers, d \in Dates, p \in MetricIdPatches :
            WithinIds(getOrCreateUser(db, u)) /\ PatchDay(u, d, p)
    \/ \E u \in DayUsers, i \in DOMAIN db.user_metrics :
            db.user_metrics[i].user_id = u /\ DeleteMetric(u, db.user_metrics[i].id)
    \/ \E u \in DayUsers, d \in Dates :
            WithinIds(getOrCreateUser(db, u)) /\ GetDay(u, d)

SpecMetricDelete == Init /\ [][NextMetricDelete]_vars

\* C24: deleteMetric leaves every day record untouched.  The day rows are the
\* same after it, the entries of metricValues under the id of the deleted
\* metric are still stored, and getDayData returns them as before.
C24_DeleteMetricKeepsDays ==
    \A u \in DayUsers, r \in Range(db.user_metrics) :
        LET after == deleteMetric(db, u, r.id)
        IN /\ after.day_data = db.day_data
           /\ \A dt \in Dates :
                /\ getDayData(after, u, dt).res = getDayData(db, u, dt).res
                /\ \A row \in Range(DayRows(db, u, dt)) :
                    r.id \in DOMAIN JSON_parse(row.metric_values) =>
                        \A agg \in getDayData(after, u, dt).res :
                            /\ r.id \in DOMAIN agg.metricValues
                            /\ agg.metricValues[r.id] = JSON_parse(row.metric_values)[r.id]

\* the metric id1 is deleted, and the day read since returned its value 7
C24_Witness ==
    /\ last.op = "getDayData"
    /\ \A r \in Range(db.user_metrics) : r.id # "id1"
    /\ "id1" \in DOMAIN last.res.metricValues
    /\ last.res.metricValues["id1"] = 7

(***************************************************************************)
(* The validation layer (validation.ts) in front of the handlers.          *)
(*                                                                         *)
(* A request arrives as text.  A string of a request is the sequence of    *)
(* its characters, so that a regular expression and a length bound can be  *)
(* computed on it; a JSON value carries its type.  A number that is not an *)
(* integer is given by the integer below it (JFrac(2) is 2.5).             *)
(***************************************************************************)
JNum(n) == [t |-> "number", num |-> n, int |-> TRUE]
JFrac(n) == [t |-> "number", num |-> n, int |-> FALSE]
JStr(chars) == [t |-> "string", str |-> chars]
JBool(b) == [t |-> "boolean", bool |-> b]
JNull == [t |-> "null"]
JObj(fields) == [t |-> "object", obj |-> fields]
\* NaN, which Number() gives for a text that is no number
JNaN == [t |-> "nan"]

Digits == <<"0", "1", "2", "3", "4", "5", "6", "7", "8", "9">>
IsDigit(ch) == \E i \in DOMAIN Digits : Digits[i] = ch
DigitValue(ch) == (CHOOSE i \in DOMAIN Digits : Digits[i] = ch) - 1

\* the characters as one string
RECURSIVE Text(_)
Text(chars) == IF chars = <<>> THEN "" ELSE Head(chars) \o Text(Tail(chars))

\* the decimal number that the digits spell
RECURSIVE Decimal(_)
Decimal(chars) ==
    IF chars = <<>> THEN 0
    ELSE 10 * Decimal(SubSeq(chars, 1, Len(chars) - 1)) + DigitValue(chars[Len(chars)])

\* String.prototype.trim
RECURSIVE TrimStart(_)
TrimStart(chars) ==
    IF chars # <<>> /\ Head(chars) = " " THEN TrimStart(Tail(chars)) ELSE chars
RECURSIVE TrimEnd(_)
TrimEnd(chars) ==
    IF chars # <<>> /\ chars[Len(chars)] = " "
    THEN TrimEnd(SubSeq(chars, 1, Len(chars) - 1)) ELSE chars
Trim(chars) == TrimEnd(TrimStart(chars))

\* Number(text) for a text of digits with at most one point: the empty and the
\* blank text are 0, digits are their number, digits.digits is a number that
\* is an integer when the digits after the point are zeros; any other text is
\* NaN
NumberOf(chars) ==
    LET c == Trim(chars)
        points == {i \in DOMAIN c : c[i] = "."}
    IN IF c = <<>> THEN JNum(0)
       ELSE IF \A i \in DOMAIN c : IsDigit(c[i]) THEN JNum(Decimal(c))
       ELSE IF /\ Cardinality(points) = 1
               /\ \A i \in DOMAIN c \ points : IsDigit(c[i])
               /\ Len(c) > 1
            THEN LET p == CHOOSE i \in points : TRUE
                     whole == Decimal(SubSeq(c, 1, p - 1))
                 IN IF \A i \in (p + 1)..Len(c) : c[i] = "0" THEN JNum(whole)
                    ELSE JFrac(whole)
       ELSE JNaN

\* the result of safeParse, as validate() returns it
Valid(data) == [success |-> TRUE, data |-> data]
Invalid == [success |-> FALSE]

\* /^\d{4}-\d{2}-\d{2}$/
MatchesDate(chars) ==
    /\ Len(chars) = 10
    /\ \A i \in 1..10 : IF i \in {5, 8} THEN chars[i] = "-" ELSE IsDigit(chars[i])
\* /^\d{2}:\d{2}$/
MatchesTime(chars) ==
    /\ Len(chars) = 5
    /\ \A i \in 1..5 : IF i = 3 THEN chars[i] = ":" ELSE IsDigit(chars[i])

\* the day of a date YYYY-MM-DD as a number: the digits of the text, so that
\* the order of the numbers is the order of the texts
DateNumber(chars) == Decimal(SelectSeq(chars, IsDigit))

\* z.string().min(lo).max(hi)
IsStringOfLength(j, lo, hi) == j.t = "string" /\ Len(j.str) >= lo /\ Len(j.str) <= hi

\* DateParamSchema
DateParamSchema(chars) ==
    IF MatchesDate(chars) THEN Valid(DateNumber(chars)) ELSE Invalid

\* IdParamSchema
IdParamSchema(chars) ==
    IF Len(chars) >= 1 /\ Len(chars) <= 50 THEN Valid(Text(chars)) ELSE Invalid

\* LimitQuerySchema: z.coerce.number().int().min(1).max(365).default(30) of a
\* value that is undefined (NULL), a number or a text
LimitQuerySchema(input) ==
    IF input = NULL THEN Valid(30)
    ELSE LET n == IF input[1].t = "string" THEN NumberOf(input[1].str) ELSE input[1]
         IN IF n.t = "number" /\ n.int /\ n.num >= 1 /\ n.num <= 365 THEN Valid(n.num)
            ELSE Invalid

\* mood: z.number().int().min(0).max(4).nullable()
MoodSchema(j) ==
    j.t = "null" \/ (j.t = "number" /\ j.int /\ j.num >= 0 /\ j.num <= 4)

\* z.number().min(0).max(100)
MetricValueSchema(j) ==
    j.t = "number" /\ j.num >= 0 /\ (IF j.int THEN j.num <= 100 ELSE j.num < 100)

\* the number of a valid JSON number: itself when it is no integer
NumberValue(j) == IF j.int THEN j.num ELSE j

\* DayDataUpdateSchema: every field optional; the data has the fields of the
\* body that the schema knows
DayDataUpdateSchema(body) ==
    IF body.t # "object" THEN Invalid
    ELSE LET b == body.obj
             has(f) == f \in DOMAIN b
             ok == /\ has("mood") => MoodSchema(b.mood)
                   /\ has("metricValues") =>
                        /\ b.metricValues.t = "object"
                        /\ \A k \in DOMAIN b.metricValues.obj :
                                MetricValueSchema(b.metricValues.obj[k])
                   /\ has("notes") => IsStringOfLength(b.notes, 0, 10000)
                   /\ has("admissionDate") =>
                        \/ b.admissionDate.t = "null"
                        \/ b.admissionDate.t = "string" /\ MatchesDate(b.admissionDate.str)
             full == [mood |-> IF ~has("mood") \/ b.mood.t = "null" THEN NULL
                               ELSE Some(b.mood.num),
                      metricValues |-> IF ~has("metricValues") THEN <<>>
                                       ELSE [k \in DOMAIN b.metricValues.obj |->
                                                NumberValue(b.metricValues.obj[k])],
                      notes |-> IF has("notes") THEN Text(b.notes.str) ELSE "",
                      admissionDate |-> IF ~has("admissionDate")
                                            \/ b.admissionDate.t = "null" THEN NULL
                                        ELSE Some(DateNumber(b.admissionDate.str))]
         IN IF ok THEN Valid(Restrict(full, DOMAIN b \cap DayFields)) ELSE Invalid

\* EventEntrySchema: id, time HH:MM, type (trimmed), an optional note
EventEntrySchema(body) ==
    IF body.t # "object" THEN Invalid
    ELSE LET b == body.obj
             has(f) == f \in DOMAIN b
             ok == /\ has("id") /\ IsStringOfLength(b.id, 1, 50)
                   /\ has("time") /\ b.time.t = "string" /\ MatchesTime(b.time.str)
                   /\ has("type") /\ IsStringOfLength(b.type, 1, 100)
                   /\ has("note") => IsStringOfLength(b.note, 0, 500)
         IN IF ~ok THEN Invalid
            ELSE IF has("note")
                 THEN Valid([id |-> Text(b.id.str), time |-> Text(b.time.str),
                             type |-> Text(Trim(b.type.str)), note |-> Text(b.note.str)])
                 ELSE Valid([id |-> Text(b.id.str), time |-> Text(b.time.str),
                             type |-> Text(Trim(b.type.str))])

\* QuestionSchema: id, text (trimmed), answered with the default false
QuestionSchema(body) ==
    IF body.t # "object" THEN Invalid
    ELSE LET b == body.obj
             has(f) == f \in DOMAIN b
             ok == /\ has("id") /\ IsStringOfLength(b.id, 1, 50)
                   /\ has("text") /\ IsStringOfLength(b.text, 1, 1000)
                   /\ has("answered") => b.answered.t = "boolean"
         IN IF ~ok THEN Invalid
            ELSE Valid([id |-> Text(b.id.str), text |-> Text(Trim(b.text.str)),
                        answered |-> IF has("answered") THEN b.answered.bool ELSE FALSE])

\* QuestionAnsweredSchema
QuestionAnsweredSchema(body) ==
    IF /\ body.t = "object"
       /\ "answered" \in DOMAIN body.obj
       /\ body.obj.answered.t = "boolean"
    THEN Valid([answered |-> body.obj.answered.bool])
    ELSE Invalid

(***************************************************************************)
(* The handlers of the day API on the text of a request: the parameters    *)
(* and the body are validated, and only valid data reach db.ts.            *)
(***************************************************************************)
BadRequest(d) == [db |-> d, status |-> 400]

\* the store and the status after the handler of the request q ran on the
\* store d at the time t
ServeRaw(d, t, q) ==
    CASE q.kind = "getDays" ->
            \* validate(LimitQuerySchema, req.query.limit || 30)
            LET limit == LimitQuerySchema(IF q.limit = NULL \/ q.limit = Some(JStr(<<>>))
                                          THEN Some(JNum(30)) ELSE q.limit)
            IN IF ~limit.success THEN BadRequest(d) ELSE [db |-> d, status |-> 200]
      [] q.kind = "getDay" ->
            LET date == DateParamSchema(q.date)
            IN IF ~date.success THEN BadRequest(d)
               ELSE [db |-> getDayData(d, q.userId, date.data).db, status |-> 200]
      [] q.kind = "patchDay" ->
            LET date == DateParamSchema(q.date)
                body == DayDataUpdateSchema(q.body)
            IN IF ~date.success THEN BadRequest(d)
               ELSE IF ~body.success THEN BadRequest(d)
               ELSE [db |-> getDayData(updateDayData(d, q.userId, date.data, body.data),
                                       q.userId, date.data).db,
                     status |-> 200]
      [] q.kind = "postEvent" ->
            LET date == DateParamSchema(q.date)
                body == EventEntrySchema(q.body)
            IN IF ~date.success THEN BadRequest(d)
               ELSE IF ~body.success THEN BadRequest(d)
               ELSE LET r == addEvent(d, t, q.userId, date.data, body.data)
                    IN IF r.threw THEN [db |-> d, status |-> 500]
                       ELSE [db |-> getDayData(r.db, q.userId, date.data).db,
                             status |-> 200]
      [] q.kind = "deleteEvent" ->
            LET id == IdParamSchema(q.id)
            IN IF ~id.success THEN BadRequest(d)
               ELSE [db |-> deleteEvent(d, q.userId, id.data), status |-> 200]
      [] q.kind = "postQuestion" ->
            LET date == DateParamSchema(q.date)
                body == QuestionSchema(q.body)
            IN IF ~date.success THEN BadRequest(d)
               ELSE IF ~body.success THEN BadRequest(d)
               ELSE LET r == addQuestion(d, t, q.userId, date.data, body.data)
                    IN IF r.threw THEN [db |-> d, status |-> 500]
                       ELSE [db |-> getDayData(r.db, q.userId, date.data).db,
                             status |-> 200]
      [] q.kind = "patchQuestion" ->
            LET id == IdParamSchema(q.id)
                body == QuestionAnsweredSchema(q.body)
            IN IF ~id.success THEN BadRequest(d)
               ELSE IF ~body.success THEN BadRequest(d)
               ELSE [db |-> updateQuestion(d, q.userId, id.data, body.data.answered),
                     status |-> 200]
      [] q.kind = "deleteQuestion" ->
            LET id == IdParamSchema(q.id)
            IN IF ~id.success THEN BadRequest(d)
               ELSE [db |-> deleteQuestion(d, q.userId, id.data), status |-> 200]

\* a handler runs on a request
Serve(q) ==
    /\ db' = ServeRaw(db, now, q).db
    /\ last' = Done(q.kind, FALSE, ServeRaw(db, now, q).status = 500, {},
                   [status |-> ServeRaw(db, now, q).status])
    /\ UNCHANGED <<now, reqs, client>>

(***************************************************************************)
(* SpecValidation: user u1 sends requests whose dates, ids, limits and     *)
(* bodies are valid or not.                                                *)
(***************************************************************************)
\* 2024-03-01; 2024-3-1, 03-15-2024, 2024-03-011
ValidDateTexts == {<<"2", "0", "2", "4", "-", "0", "3", "-", "0", "1">>}
BadDateTexts ==
    {<<"2", "0", "2", "4", "-", "3", "-", "1">>,
     <<"0", "3", "-", "1", "5", "-", "2", "0", "2", "4">>,
     <<"2", "0", "2", "4", "-", "0", "3", "-", "0", "1", "1">>}
\* e1, q1; an id of 51 characters
ValidIdTexts == {<<"e", "1">>, <<"q", "1">>}
BadIdTexts == {[i \in 1..51 |-> "x"]}
\* no limit, 2; the empty text, 0, 366, 1.5, abc
ValidLimits == {NULL, Some(JStr(<<"2">>))}
BadLimits ==
    {Some(JStr(<<>>)), Some(JStr(<<"0">>)), Some(JStr(<<"3", "6", "6">>)),
     Some(JStr(<<"1", ".", "5">>)), Some(JStr(<<"a", "b", "c">>))}

ValidDayBodies ==
    {JObj([notes |-> JStr(<<"x">>)]),
     JObj([mood |-> JNum(3)]),
     JObj([mood |-> JNull]),
     JObj([metricValues |-> JObj([a |-> JNum(1)])]),
     JObj([admissionDate |-> JStr(<<"2", "0", "2", "4", "-", "0", "3", "-", "0", "1">>)]),
     JObj(<<>>)}
BadDayBodies ==
    {JObj([mood |-> JNum(5)]),
     JObj([mood |-> JNum(0 - 1)]),
     JObj([mood |-> JFrac(2)]),
     JObj([mood |-> JStr(<<"3">>)]),
     JObj([notes |-> JStr(<<"x">>), mood |-> JNum(5)]),
     JObj([metricValues |-> JObj([a |-> JNum(101)])]),
     JObj([metricValues |-> JObj([a |-> JNum(1), b |-> JFrac(100)])]),
     JObj([metricValues |-> JObj([a |-> JStr(<<"1">>)])]),
     JObj([notes |-> JStr([i \in 1..10001 |-> "x"])]),
     JObj([notes |-> JNum(1)]),
     JObj([admissionDate |-> JStr(<<"1", " ", "M", "a", "r", "c", "h">>)]),
     JObj([notes |-> JStr(<<"x">>), admissionDate |-> JNum(1)]),
     JNull}

ValidEventBodies ==
    {JObj([id |-> JStr(<<"e", "1">>), time |-> JStr(<<"0", "9", ":", "0", "0">>),
           type |-> JStr(<<"E", "C", "G", " ">>)])}
BadEventBodies ==
    {JObj([id |-> JStr(<<"e", "1">>), time |-> JStr(<<"9", ":", "0", "0">>),
           type |-> JStr(<<"E", "C", "G">>)]),
     JObj([id |-> JStr(<<>>), time |-> JStr(<<"0", "9", ":", "0", "0">>),
           type |-> JStr(<<"E", "C", "G">>)]),
     JObj([id |-> JStr(<<"e", "1">>), time |-> JStr(<<"0", "9", ":", "0", "0">>)]),
     JObj([id |-> JStr(<<"e", "1">>), time |-> JStr(<<"0", "9", ":", "0", "0">>),
           type |-> JStr(<<"E", "C", "G">>), note |-> JStr([i \in 1..501 |-> "n"])])}

ValidQuestionBodies ==
    {JObj([id |-> JStr(<<"q", "1">>), text |-> JStr(<<"t">>)])}
BadQuestionBodies ==
    {JObj([id |-> JStr(<<"q", "1">>), text |-> JStr(<<>>)]),
     JObj([id |-> JStr(<<"q", "1">>), text |-> JStr(<<"t">>), answered |-> JNum(1)]),
     JObj([text |-> JStr(<<"t">>)])}

ValidAnsweredBodies == {JObj([answered |-> JBool(TRUE)])}
BadAnsweredBodies == {JObj(<<>>), JObj([answered |-> JStr(<<"y", "e", "s">>)])}

\* the requests of the user: every parameter and body valid or not
RawRequests(u) ==
    {[kind |-> "getDays", userId |-> u, limit |-> l] : l \in ValidLimits \cup BadLimits}
    \cup {[kind |-> "getDay", userId |-> u, date |-> dt] :
            dt \in ValidDateTexts \cup BadDateTexts}
    \cup {[kind |-> "patchDay", userId |-> u, date |-> dt, body |-> b] :
            dt \in ValidDateTexts \cup BadDateTexts, b \in ValidDayBodies \cup BadDayBodies}
    \cup {[kind |-> "postEvent", userId |-> u, date |-> dt, body |-> b] :
            dt \in ValidDateTexts \cup BadDateTexts,
            b \in ValidEventBodies \cup BadEventBodies}
    \cup {[kind |-> k, userId |-> u, id |-> i] :
            k \in {"deleteEvent", "deleteQuestion"}, i \in ValidIdTexts \cup BadIdTexts}
    \cup {[kind |-> "postQuestion", userId |-> u, date |-> dt, body |-> b] :
            dt \in ValidDateTexts \cup BadDateTexts,
            b \in ValidQuestionBodies \cup BadQuestionBodies}
    \cup {[kind |-> "patchQuestion", userId |-> u, id |-> i, body |-> b] :
            i \in ValidIdTexts \cup BadIdTexts,
            b \in ValidAnsweredBodies \cup BadAnsweredBodies}

NextValidation == \E u \in DayUsers : \E q \in RawRequests(u) : Serve(q)

SpecValidation == Init /\ [][NextValidation]_vars

\* the date, the id, the limit or the body of the request fails its schema
FailsSchema(q) ==
    \/ "date" \in DOMAIN q /\ ~DateParamSchema(q.date).success
    \/ "id" \in DOMAIN q /\ ~IdParamSchema(q.id).success
    \/ "limit" \in DOMAIN q /\ ~LimitQuerySchema(q.limit).success
    \/ q.kind = "patchDay" /\ ~DayDataUpdateSchema(q.body).success
    \/ q.kind = "postEvent" /\ ~EventEntrySchema(q.body).success
    \/ q.kind = "postQuestion" /\ ~QuestionSchema(q.body).success
    \/ q.kind = "patchQuestion" /\ ~QuestionAnsweredSchema(q.body).success

\* C25: validation failures never reach the core.  A request whose date, id,
\* limit or body fails its schema is answered with 400 and leaves the store
\* as it was: no user row, no seeding, no row inserted or updated.
C25_InvalidRejected ==
    \A u \in UserIds : \A q \in RawRequests(u) :
        FailsSchema(q) =>
            /\ ServeRaw(db, now, q).status = 400
            /\ ServeRaw(db, now, q).db = db

(***************************************************************************)
(* The client utilities of storage.ts.                                     *)
(*                                                                         *)
(* An instant is a number of hours since 00:00 UTC of day 0.  new Date of  *)
(* a text YYYY-MM-DD is 00:00 UTC of that day; setHours(0, 0, 0, 0) moves  *)
(* an instant to the midnight of its day in the time zone of the browser.  *)
(* A time zone is its standard offset from UTC and the instants between    *)
(* which its clocks are one hour ahead of that.                            *)
(***************************************************************************)
HoursPerDay == 24

\* the days of the calendar of the client model
CalendarDays == 1..6

\* UTC; a zone on UTC whose clocks go forward at 01:00 UTC of day 3 and back at
\* 01:00 UTC of day 5 (as Europe/Dublin does in March and October); a zone five
\* hours behind whose clocks go forward at 02:00 local time of day 3 and back
\* at 02:00 of day 5 (as America/New_York does)
TimeZones ==
    {[name |-> "UTC", std |-> 0, dstFrom |-> 0, dstTo |-> 0],
     [name |-> "Europe/Dublin", std |-> 0,
      dstFrom |-> 3 * HoursPerDay + 1, dstTo |-> 5 * HoursPerDay + 1],
     [name |-> "America/New_York", std |-> 0 - 5,
      dstFrom |-> 3 * HoursPerDay + 7, dstTo |-> 5 * HoursPerDay + 6]}

\* the offset of the local time from UTC at the instant
OffsetAt(zone, instant) ==
    IF zone.dstFrom <= instant /\ instant < zone.dstTo THEN zone.std + 1 ELSE zone.std

\* new Date('YYYY-MM-DD'): a date-only text is 00:00 UTC of the day
NewDate(date) == date * HoursPerDay

\* the day of the local calendar on which the instant falls
LocalDay(zone, instant) == (instant + OffsetAt(zone, instant)) \div HoursPerDay

\* date.setHours(0, 0, 0, 0): the instant of 00:00 local time of the local day
setHoursZero(zone, instant) ==
    LET wall == LocalDay(zone, instant) * HoursPerDay
        ahead == wall - (zone.std + 1)
    IN IF OffsetAt(zone, ahead) = zone.std + 1 THEN ahead ELSE wall - zone.std

\* calculateDayNumber(admissionDate, currentDate) in a browser of the zone
calculateDayNumber(admissionDate, currentDate, zone) ==
    IF admissionDate = NULL THEN NULL
    ELSE LET admission == setHoursZero(zone, NewDate(admissionDate[1]))
             current == setHoursZero(zone, NewDate(currentDate))
             diffTime == current - admission
             diffDays == diffTime \div HoursPerDay
         IN Some(diffDays + 1)

\* the header of the app computes the day number of the day shown
CalculateDayNumber(admissionDate, currentDate, zone) ==
    /\ last' = Done("calculateDayNumber", FALSE, FALSE, {},
                   [admissionDate |-> admissionDate, currentDate |-> currentDate,
                    zone |-> zone.name,
                    dayNumber |-> calculateDayNumber(admissionDate, currentDate, zone)])
    /\ UNCHANGED <<db, now, reqs, client>>

(***************************************************************************)
(* SpecDayNumber: day numbers of every pair of days in every zone          *)
(***************************************************************************)
ClientAdmissionDates == {NULL} \cup {Some(d) : d \in CalendarDays}

NextDayNumber ==
    \E a \in ClientAdmissionDates, c \in CalendarDays, z \in TimeZones :
        CalculateDayNumber(a, c, z)

SpecDayNumber == Init /\ [][NextDayNumber]_vars

\* C26: calculateDayNumber returns null when the admission date is null, and
\* otherwise the number of whole days from the admission date to the current
\* date plus one: 1 for equal dates, n + 1 for a date n days after the
\* admission, and a value <= 0, not clamped, for a date before the admission
\* (-4 for five days before).
C26_DayNumber ==
    last.op = "calculateDayNumber" =>
        last.res.dayNumber =
            IF last.res.admissionDate = NULL THEN NULL
            ELSE Some(last.res.currentDate - last.res.admissionDate[1] + 1)

(***************************************************************************)
(* generateSummary.  The text is the sequence of its lines (the code joins *)
(* them with a line feed); an emoji is the text of its code points.        *)
(***************************************************************************)
\* formatDateLong: the weekday, the day and the month of the local day on which
\* 00:00 UTC of the date falls
formatDateLong(date, zone) == "LongDate(" \o ToString(LocalDay(zone, NewDate(date))) \o ")"

moods == <<"U+1F62B Terrible", "U+1F614 Not great", "U+1F610 Okay", "U+1F642 Good",
           "U+1F604 Great">>

\* a header that names the day whenever the day number is truthy
HeaderLinesWhenTruthy(data, settings, zone) ==
    LET dateStr == formatDateLong(data.date, zone)
        dayNum == calculateDayNumber(settings.admissionDate, data.date, zone)
    IN IF dayNum # NULL /\ dayNum[1] # 0
       THEN <<"U+1F4CB " \o dateStr \o " U+2014 Day " \o ToString(dayNum[1])
                \o " in hospital">>
       ELSE <<"U+1F4CB " \o dateStr>>

\* if (dayNum && dayNum > 0)
HeaderLines(data, settings, zone) ==
    LET dateStr == formatDateLong(data.date, zone)
        dayNum == calculateDayNumber(settings.admissionDate, data.date, zone)
    IN IF dayNum # NULL /\ dayNum[1] # 0 /\ dayNum[1] > 0
       THEN <<"U+1F4CB " \o dateStr \o " U+2014 Day " \o ToString(dayNum[1])
                \o " in hospital">>
       ELSE <<"U+1F4CB " \o dateStr>>

MoodLines(data) ==
    IF data.mood # NULL /\ data.mood[1] >= 0 /\ data.mood[1] < 5
    THEN <<"  Mood: " \o moods[data.mood[1] + 1]>>
    ELSE <<>>

\* a || b on numbers
OrElse(a, b) == IF a = NULL \/ a = Some(0) THEN b ELSE a[1]
\* a ?? b
OrDefault(a, b) == IF a = NULL THEN b ELSE a[1]
\* obj[key]: undefined (NULL) when the object has no such key
Lookup(obj, key) == IF key \in DOMAIN obj THEN Some(obj[key]) ELSE NULL

\* metric lines with || in the place of ??
MetricLinesOrElse(data, settings) ==
    [i \in DOMAIN settings.metrics |->
        LET metric == settings.metrics[i]
            value == OrElse(Lookup(data.metricValues, metric.id), metric.defaultValue)
        IN "  " \o metric.name \o ": " \o ToString(value) \o "/" \o ToString(metric.maxValue)]

\* for (const metric of settings.metrics)
MetricLines(data, settings) ==
    [i \in DOMAIN settings.metrics |->
        LET metric == settings.metrics[i]
            value == OrDefault(Lookup(data.metricValues, metric.id), metric.defaultValue)
        IN "  " \o metric.name \o ": " \o ToString(value) \o "/" \o ToString(metric.maxValue)]

\* the notes of the client are the sequence of their characters
NotesLines(data) ==
    IF Trim(data.notes) # <<>>
    THEN <<"", "U+1F4AD Notes:", "  " \o Text(data.notes)>>
    ELSE <<>>

EventLines(data) ==
    IF Len(data.events) > 0
    THEN <<"", "U+1F4DD Today's events:">> \o
         [i \in DOMAIN data.events |->
            LET event == data.events[i]
                note == IF "note" \in DOMAIN event /\ event.note # ""
                        THEN " (" \o event.note \o ")" ELSE ""
            IN "  " \o event.time \o " U+2014 " \o event.type \o note]
    ELSE <<>>

QuestionBullets(questions) == [i \in DOMAIN questions |-> "  U+2022 " \o questions[i].text]

\* an unanswered section that is written whether or not it is empty
UnansweredLinesAlways(data) ==
    LET unanswered == SelectSeq(data.questions, LAMBDA q : ~q.answered)
    IN <<"", "U+2753 Questions for the team:">> \o QuestionBullets(unanswered)

UnansweredLines(data) ==
    LET unanswered == SelectSeq(data.questions, LAMBDA q : ~q.answered)
    IN IF Len(unanswered) > 0
       THEN <<"", "U+2753 Questions for the team:">> \o QuestionBullets(unanswered)
       ELSE <<>>

AnsweredLines(data) ==
    LET answered == SelectSeq(data.questions, LAMBDA q : q.answered)
    IN IF Len(answered) > 0
       THEN <<"", "U+2705 Answered questions:">> \o QuestionBullets(answered)
       ELSE <<>>

generateSummary(data, settings, zone) ==
    HeaderLines(data, settings, zone) \o <<"", "U+1F4CA How I'm doing:">>
        \o MoodLines(data) \o MetricLines(data, settings)
        \o NotesLines(data) \o EventLines(data)
        \o UnansweredLines(data) \o AnsweredLines(data)

\* the page has loaded in a browser of the zone: the settings and the day data
\* of the responses are its state
Loaded(data, settings, zone) ==
    /\ client.data = NULL
    /\ client' = [client EXCEPT !.data = Some(data), !.settings = Some(settings),
                                !.zone = zone]
    /\ last' = Done("load", FALSE, FALSE, {}, NoRes)
    /\ UNCHANGED <<db, now, reqs>>

\* copySummary
CopySummary ==
    /\ client.data # NULL /\ client.settings # NULL
    /\ last' = Done("generateSummary", FALSE, FALSE, {},
                   [lines |-> generateSummary(client.data[1], client.settings[1],
                                              client.zone)])
    /\ UNCHANGED <<db, now, reqs, client>>

(***************************************************************************)
(* SpecSummary: the page loads some settings and some day, and the summary *)
(* is copied.                                                              *)
(***************************************************************************)
SummaryDates == {2, 4}
SummaryAdmissionDates == {NULL, Some(1), Some(3), Some(5)}
Energy == [id |-> "id3", name |-> "Energy", icon |-> "U+26A1",
           minValue |-> 0, maxValue |-> 10, defaultValue |-> 5, sortOrder |-> 2]
Pain == [id |-> "id1", name |-> "Pain", icon |-> "U+1F915",
         minValue |-> 0, maxValue |-> 10, defaultValue |-> 0, sortOrder |-> 0]
\* no metric; Energy before Pain (any list is summarised in its order)
SummaryMetrics == {<<>>, <<Energy, Pain>>}
\* no value; 0 for Energy; values for Pain and for a metric that is not there
SummaryMetricValues == {<<>>, [id3 |-> 0], [id1 |-> 7, zz |-> 1]}
SummaryMoods == {NULL, Some(3)}
SummaryNotes == {<<>>, <<"x">>, <<" ">>}
SummaryEvents ==
    {<<>>, <<[id |-> "e1", time |-> "09:00", type |-> "Bloods", note |-> "n"]>>}
Q1 == [id |-> "q1", text |-> "one", answered |-> FALSE]
Q2 == [id |-> "q2", text |-> "two", answered |-> TRUE]
Q3 == [id |-> "q3", text |-> "three", answered |-> FALSE]
Q4 == [id |-> "q4", text |-> "four", answered |-> TRUE]
SummaryQuestions == {<<>>, <<Q1>>, <<Q2>>, <<Q2, Q1>>, <<Q2, Q3, Q4, Q1>>}

SummaryData ==
    [date : SummaryDates, mood : SummaryMoods, metricValues : SummaryMetricValues,
     notes : SummaryNotes, events : SummaryEvents, questions : SummaryQuestions]
SummarySettings ==
    [metrics : SummaryMetrics, eventTypes : {<<>>}, admissionDate : SummaryAdmissionDates]

NextSummary ==
    \/ \E data \in SummaryData, settings \in SummarySettings, zone \in TimeZones :
            Loaded(data, settings, zone)
    \/ CopySummary

SpecSummary == Init /\ [][NextSummary]_vars

\* C27: the header of the summary contains "Day N in hospital" exactly when an
\* admission date is set and the day number N of the date of the aggregate is
\* at least 1 (the date is not before the admission); otherwise the header is
\* the long date alone.  N is the number that calculateDayNumber gives.
C27_Header ==
    last.op = "generateSummary" =>
        LET data == client.data[1]
            settings == client.settings[1]
            N == calculateDayNumber(settings.admissionDate, data.date, client.zone)
            long == "U+1F4CB " \o formatDateLong(data.date, client.zone)
        IN /\ (settings.admissionDate # NULL /\ N[1] >= 1)
                <=> (settings.admissionDate # NULL
                        /\ data.date >= settings.admissionDate[1])
           /\ last.res.lines[1] =
                IF settings.admissionDate # NULL /\ N[1] >= 1
                THEN long \o " U+2014 Day " \o ToString(N[1]) \o " in hospital"
                ELSE long

\* a summary was copied for a day two days before the admission: the header is
\* the long date alone
C27_Witness ==
    /\ last.op = "generateSummary"
    /\ client.settings[1].admissionDate = Some(5) /\ client.data[1].date = 2
    /\ client.zone.name = "Europe/Dublin"
    /\ last.res.lines[1] = "U+1F4CB LongDate(2)"

\* the number of lines of a section of n entries under a heading, after a blank
\* line; no line when n = 0
SectionLength(n) == IF n = 0 THEN 0 ELSE n + 2

\* C28: the summary has exactly one metric line per metric of
\* settings.metrics, in the order of the list, showing metricValues[metric.id]
\* when that key is present and metric.defaultValue otherwise; a key of
\* metricValues that matches no metric gives no line.  The metric lines follow
\* the heading and the mood line, and the summary has no line besides them and
\* the lines of the other sections.
C28_MetricLines ==
    last.op = "generateSummary" =>
        LET data == client.data[1]
            metrics == client.settings[1].metrics
            lines == last.res.lines
            start == IF data.mood = NULL THEN 3 ELSE 4
            shown(m) == IF m.id \in DOMAIN data.metricValues
                        THEN data.metricValues[m.id] ELSE m.defaultValue
        IN /\ \A i \in DOMAIN metrics :
                lines[start + i] = "  " \o metrics[i].name \o ": "
                    \o ToString(shown(metrics[i])) \o "/" \o ToString(metrics[i].maxValue)
           /\ Len(lines) = start + Len(metrics)
                + (IF data.notes \in {<<>>, <<" ">>} THEN 0 ELSE 3)
                + SectionLength(Len(data.events))
                + SectionLength(Cardinality({i \in DOMAIN data.questions :
                                                ~data.questions[i].answered}))
                + SectionLength(Cardinality({i \in DOMAIN data.questions :
                                                data.questions[i].answered}))

\* the summary of a day with a mood, with the value 7 for Pain and a value for
\* a metric that is not in the settings: Energy shows its default, Pain its
\* value, and the notes follow
C28_Witness ==
    /\ last.op = "generateSummary"
    /\ client.settings[1].metrics = <<Energy, Pain>>
    /\ client.data[1].metricValues = [id1 |-> 7, zz |-> 1]
    /\ client.data[1].mood = Some(3) /\ client.data[1].notes = <<"x">>
    /\ SubSeq(last.res.lines, 4, 7) =
            <<"  Mood: U+1F642 Good", "  Energy: 5/10", "  Pain: 7/10", "">>

\* C29: the summary partitions the questions.  Every question is written
\* once, under "Questions for the team" when it is not answered and under
\* "Answered questions" when it is; each section keeps the order of the
\* questions, the unanswered section comes first, and a section is left out
\* exactly when it has no question.  The two sections are the end of the
\* summary, and no heading and no question is written before them.
C29_QuestionSections ==
    last.op = "generateSummary" =>
        LET questions == client.data[1].questions
            lines == last.res.lines
            bullet(q) == "  U+2022 " \o q.text
            U == SelectSeq(questions, LAMBDA q : q.answered = FALSE)
            A == SelectSeq(questions, LAMBDA q : q.answered = TRUE)
            headingU == "U+2753 Questions for the team:"
            headingA == "U+2705 Answered questions:"
            tail == (IF U = <<>> THEN <<>>
                     ELSE <<"", headingU>> \o [i \in DOMAIN U |-> bullet(U[i])])
                    \o (IF A = <<>> THEN <<>>
                        ELSE <<"", headingA>> \o [i \in DOMAIN A |-> bullet(A[i])])
        IN /\ Len(lines) >= Len(tail)
           /\ SubSeq(lines, Len(lines) - Len(tail) + 1, Len(lines)) = tail
           /\ \A i \in 1..(Len(lines) - Len(tail)) :
                /\ lines[i] \notin {headingU, headingA}
                /\ \A j \in DOMAIN questions : lines[i] # bullet(questions[j])

\* the summary of the questions two (answered), three, four (answered), one
C29_Witness ==
    /\ last.op = "generateSummary"
    /\ client.data[1].questions = <<Q2, Q3, Q4, Q1>>
    /\ Len(last.res.lines) >= 8
    /\ SubSeq(last.res.lines, Len(last.res.lines) - 7, Len(last.res.lines)) =
            <<"", "U+2753 Questions for the team:", "  U+2022 three", "  U+2022 one",
              "", "U+2705 Answered questions:", "  U+2022 two", "  U+2022 four">>

(***************************************************************************)
(* The debounced edits of App.tsx.  The page shows one day of one user; a  *)
(* change of a slider or of the notes goes through debouncedUpdate, which  *)
(* sets a timer of 500 ms; an edit within the 500 ms is an edit made while *)
(* the timer is set.  The PATCH request of a timer that fires is served in *)
(* the same step.                                                          *)
(***************************************************************************)
ClientUser == "u1"
\* the day the page shows: useState(getDateKey())
ClientToday == 1

\* init(): loadSettings() and loadDayData(currentDate)
LoadPage(zone) ==
    /\ client.data = NULL
    /\ LET st == getUserSettings(db, ClientUser)
           day == getDayData(st.db, ClientUser, ClientToday)
       IN /\ db' = day.db
          /\ \E settings \in st.res, data \in day.res :
                client' = [client EXCEPT !.settings = Some(settings),
                                         !.data = Some(data), !.zone = zone]
    /\ last' = Done("load", FALSE, FALSE, {}, NoRes)
    /\ UNCHANGED <<now, reqs>>

\* debouncedUpdate(updates): the day on the page takes the updates, the timer
\* that is set is cleared, and a new timer is set for these updates alone
debouncedUpdate(c, updates) ==
    IF c.data = NULL THEN c
    ELSE [c EXCEPT !.data = Some(Spread(c.data[1], updates)),
                   !.timer = Some([date |-> ClientToday, updates |-> updates]),
                   !.unsent = @ \cup DOMAIN updates]

\* updateMetricValue(metricId, value)
UpdateMetricValue(metricId, value) ==
    /\ client.data # NULL
    /\ LET newMetricValues ==
                Spread(client.data[1].metricValues, [k \in {metricId} |-> value])
       IN client' = debouncedUpdate(client, [metricValues |-> newMetricValues])
    /\ last' = Done("updateMetricValue", FALSE, FALSE, {"metricValues"}, NoRes)
    /\ UNCHANGED <<db, now, reqs>>

\* onChange of the notes: debouncedUpdate({ notes: e.target.value })
EditNotes(text) ==
    /\ client.data # NULL
    /\ client' = debouncedUpdate(client, [notes |-> text])
    /\ last' = Done("editNotes", FALSE, FALSE, {"notes"}, NoRes)
    /\ UNCHANGED <<db, now, reqs>>

\* the timer fires after 500 ms without an edit: updateDayData(currentDate,
\* updates) sends the PATCH request, and the server handles it
TimerFires ==
    /\ client.timer # NULL
    /\ LET timer == client.timer[1]
       IN /\ db' = getDayData(updateDayData(db, ClientUser, timer.date, timer.updates),
                              ClientUser, timer.date).db
          /\ client' = [client EXCEPT !.timer = NULL,
                                      !.unsent = @ \ DOMAIN timer.updates]
          /\ last' = Done("updateDayData", Len(DayRows(db, ClientUser, timer.date)) > 0,
                          FALSE, DOMAIN timer.updates, NoRes)
    /\ UNCHANGED <<now, reqs>>

(***************************************************************************)
(* SpecDebounce: the page loads, the user moves sliders and edits the      *)
(* notes, the timer fires.  A timer that is set fires unless an edit       *)
(* clears it.                                                              *)
(***************************************************************************)
SliderMetrics == {"id1", "id2"}
SliderValues == {1, 2}
NotesTexts == {"x", "y"}
DebouncedFields == {"metricValues", "notes"}

NextDebounce ==
    \/ \E z \in TimeZones : z.name = "UTC" /\ LoadPage(z)
    \/ \E m \in SliderMetrics, v \in SliderValues : UpdateMetricValue(m, v)
    \/ \E t \in NotesTexts : EditNotes(t)
    \/ TimerFires

SpecDebounce == Init /\ [][NextDebounce]_vars /\ WF_vars(TimerFires)

\* C30: no edit is dropped by the debounce.  Every field changed through
\* debouncedUpdate (a metric value, then the notes within the 500 ms, or the
\* other way round) is eventually sent in a PATCH request.
C30_NoEditDropped ==
    \A f \in DebouncedFields : (f \in client.unsent) ~> (f \notin client.unsent)

(***************************************************************************)
(* SpecEmptyDays: patches that hold no field of the day row.  Two users    *)
(* send the empty patch, patches with admissionDate alone and a patch with *)
(* notes, and list their days; the first user reads days as well.          *)
(***************************************************************************)
\* the patches of PATCH /api/days/:date that write no mood, metric value or
\* note: the empty body, and the body of updateAdmission (App.tsx 119-131)
FieldlessPatches ==
    {<<>>, [admissionDate |-> Some(1)], [admissionDate |-> NULL]}
EmptyDayPatches == FieldlessPatches \cup {[notes |-> "x"]}

NextEmptyDays ==
    \/ \E u \in UserIds, d \in Dates, p \in EmptyDayPatches : PatchDay(u, d, p)
    \/ \E u \in DayUsers, d \in Dates : GetDay(u, d)
    \/ \E u \in UserIds : GetDays(u, 30)

SpecEmptyDays == Init /\ [][NextEmptyDays]_vars

\* C31: updateDayData on a (user, date) that has no day row creates the row
\* whatever the patch holds, a patch with admissionDate alone or with no field
\* included: the row then has a null mood, no metric value and empty notes, and
\* getDaysWithData returns the date.
C31_FieldlessPatchCreatesRow ==
    \A u \in UserIds, dt \in Dates, p \in EmptyDayPatches :
        Len(DayRows(db, u, dt)) = 0 =>
            LET d2 == updateDayData(db, u, dt, p)
            IN /\ Len(DayRows(d2, u, dt)) = 1
               /\ dt \in Range(getDaysWithData(d2, u, 30))
               /\ p \in FieldlessPatches =>
                    DayFieldsOf(d2, u, dt) =
                        {[mood |-> NULL, metricValues |-> <<>>, notes |-> ""]}

\* the day row of (u1, 2) holds no mood, no metric value and no note, the
\* admission date of u1 was set, and the listing of u1 answered the date 2
C31_Witness ==
    /\ last.op = "getDaysWithData"
    /\ last.res.userId = "u1" /\ last.res.days = <<2>>
    /\ DayFieldsOf(db, "u1", 2) = {[mood |-> NULL, metricValues |-> <<>>, notes |-> ""]}
    /\ Len(DayRows(db, "u1", 2)) = 1
    /\ AdmissionOf(db, "u1") = Some(1)

(***************************************************************************)
(* SpecApi: every handler of the API.  User u1 writes metric values and    *)
(* notes to a day; both users read, add and delete events and questions,   *)
(* and update and delete metrics and event types by id, their own and      *)
(* those of the other user; u2 adds a metric and then an event type.       *)
(***************************************************************************)
ApiPatches == MetricIdPatches
\* the ids of the first metric and the first event type seeded
ApiMetricIds == {generateId(1)}
ApiEventTypeIds == {generateId(1 + Len(DEFAULT_METRICS))}
ApiEventType == [name |-> "Physio", icon |-> "U+1F3C3", sortOrder |-> 7]
ApiMetric ==
    [name |-> "Sleep", icon |-> "U+1F634",
     minValue |-> 0, maxValue |-> 10, defaultValue |-> 5, sortOrder |-> 3]

NextApi ==
    \/ \E u \in UserIds : GetSettings(u)
    \/ \E u \in MetricPosters :
            /\ Len(db.users) = Cardinality(UserIds)
            /\ \A r \in Range(MetricRows(db, u)) : r.name # ApiMetric.name
            /\ PostMetric(u, ApiMetric)
    \/ \E u \in UserIds, id \in ApiMetricIds : PutMetric(u, MetricUpdate(id))
    \/ \E u \in UserIds, id \in ApiMetricIds : DeleteMetric(u, id)
    \/ \E u \in MetricPosters :
            /\ \E r \in Range(MetricRows(db, u)) : r.name = ApiMetric.name
            /\ \A r \in Range(EventTypeRows(db, u)) : r.name # ApiEventType.name
            /\ PostEventType(u, ApiEventType)
    \/ \E u \in UserIds, id \in ApiEventTypeIds : PutEventType(u, EventTypeUpdate(id))
    \/ \E u \in UserIds, id \in ApiEventTypeIds : DeleteEventType(u, id)
    \/ \E u \in DayUsers : GetDays(u, 30)
    \/ \E u \in DayUsers : GetDay(u, NoopDate)
    \/ \E u \in DayUsers, p \in ApiPatches : PatchDay(u, NoopDate, p)
    \/ \E u \in DayUsers : PostEvent(u, NoopDate, NoopEvents[u])
    \/ \E u \in UserIds : DeleteEvent(u, NoopEvents[NoopActor].id)
    \/ \E u \in DayUsers : PostQuestion(u, NoopDate, NoopQuestions[u])
    \/ \E u \in UserIds : PatchQuestion(u, NoopQuestions[NoopActor].id, TRUE)
    \/ \E u \in UserIds : DeleteQuestion(u, NoopQuestions[NoopActor].id)

SpecApi == Init /\ [][NextApi]_vars

\* the keys of metricValues in what getDayData returns for (userId, date)
MetricKeys(d, userId, date) ==
    UNION {DOMAIN agg.metricValues : agg \in getDayData(d, userId, date).res}

\* C32: the key set of a day's metricValues only grows.  Every step of every
\* handler leaves in getDayData's metricValues of every (user, date) each key
\* that was there before the step, and leaves every day row in its table.
C32_KeysOnlyGrow ==
    [][\A u \in UserIds, dt \in Dates :
            /\ MetricKeys(db, u, dt) \subseteq MetricKeys(db', u, dt)
            /\ Len(DayRows(db, u, dt)) <= Len(DayRows(db', u, dt))]_vars

\* the metric id1 has just been deleted by its owner u1, whose day still holds
\* the values stored under id1 and id2
C32_Witness ==
    /\ last.op = "deleteMetric"
    /\ last.res = Target("u1", "id1")
    /\ \A r \in Range(db.user_metrics) : r.id # "id1"
    /\ \E r \in Range(db.user_metrics) : r.id = "id2" /\ r.user_id = "u1"
    /\ MetricKeys(db, "u1", NoopDate) = {"id1", "id2"}

(***************************************************************************)
(* SpecReseed: deletes of metrics and event types.  User u1 reads its      *)
(* settings and deletes its metrics, in any order, and its event types, in *)
(* the order of the table; u2 adds a metric before its first read.         *)
(***************************************************************************)
NextReseed ==
    \/ \E u \in UserIds : WithinIds(getUserSettings(db, u).db) /\ GetSettings(u)
    \/ \E u \in DayUsers, i \in DOMAIN db.user_metrics :
            db.user_metrics[i].user_id = u /\ DeleteMetric(u, db.user_metrics[i].id)
    \/ \E u \in DayUsers :
            /\ Len(EventTypeRows(db, u)) > 0
            /\ DeleteEventType(u, EventTypeRows(db, u)[1].id)
    \/ \E u \in MetricPosters :
            /\ Len(UserRows(db, u)) = 0 /\ Len(MetricRows(db, u)) = 0
            /\ WithinIds(addMetric(db, u, ApiMetric).db)
            /\ PostMetric(u, ApiMetric)

SpecReseed == Init /\ [][NextReseed]_vars

NamesOf(rows) == [i \in DOMAIN rows |-> rows[i].name]

\* C33: getUserSettings returns at least one metric and at least one event
\* type in every reachable state, whatever was deleted before.  The two lists
\* are re-seeded independently: a user with no metric and some event types
\* gets the three default metrics and keeps its event types as they are; a
\* user with no event type and some metrics gets the seven default event
\* types and keeps its metrics as they are.
C33_NeverEmpty ==
    \A u \in UserIds :
        LET r == getUserSettings(db, u)
        IN /\ r.res # {}
           /\ \A s \in r.res : Len(s.metrics) > 0 /\ Len(s.eventTypes) > 0
           /\ Len(MetricRows(db, u)) = 0 /\ Len(EventTypeRows(db, u)) > 0 =>
                /\ EventTypeRows(r.db, u) = EventTypeRows(db, u)
                /\ NamesOf(MetricRows(r.db, u)) = NamesOf(DEFAULT_METRICS)
           /\ Len(EventTypeRows(db, u)) = 0 /\ Len(MetricRows(db, u)) > 0 =>
                /\ MetricRows(r.db, u) = MetricRows(db, u)
                /\ NamesOf(EventTypeRows(r.db, u)) = NamesOf(DEFAULT_EVENT_TYPES)

\* the settings of u1 have just been read after all its metrics and two of
\* its event types were deleted: the metrics are seeded anew, the five event
\* types that were left are as they were
C33_Witness ==
    /\ last.op = "getUserSettings"
    /\ NamesOf(MetricRows(db, "u1")) = NamesOf(DEFAULT_METRICS)
    /\ MetricRows(db, "u1")[1].id = generateId(11)
    /\ NamesOf(EventTypeRows(db, "u1")) = SubSeq(NamesOf(DEFAULT_EVENT_TYPES), 3, 7)

(***************************************************************************)
(* Ids that are taken, over SpecRead: both users add the event e1 and the  *)
(* question q1 on both dates                                               *)
(***************************************************************************)
\* events and questions with the ids of ReadEvents and ReadQuestions, with the
\* same content and with another content
TakenIdEvents == ReadEvents \cup {[id |-> "e1", time |-> "10:30", type |-> "ECG"]}
TakenIdQuestions == ReadQuestions \cup {[id |-> "q1", text |-> "other", answered |-> FALSE]}

\* C34: addEvent (addQuestion) with an id that a stored event (question) has,
\* of any user and on any date, throws; the handler answers 500; no row is
\* added and the row that has the id stays as it is, in owner, date and
\* content (the whole store is unchanged).  No two rows of the events table,
\* and no two of the questions table, have the same id.
C34_TakenIdFails ==
    /\ \A i, j \in DOMAIN db.events : db.events[i].id = db.events[j].id => i = j
    /\ \A i, j \in DOMAIN db.questions : db.questions[i].id = db.questions[j].id => i = j
    /\ \A u \in UserIds, dt \in Dates :
        /\ \A e \in TakenIdEvents :
            (\E r \in Range(db.events) : r.id = e.id) =>
                /\ addEvent(db, now, u, dt, e) = [db |-> db, threw |-> TRUE]
                /\ LET a == Handle(db, now, [kind |-> "postEvent", userId |-> u,
                                             date |-> dt, event |-> e])
                   IN a.status = 500 /\ a.db = db
        /\ \A q \in TakenIdQuestions :
            (\E r \in Range(db.questions) : r.id = q.id) =>
                /\ addQuestion(db, now, u, dt, q) = [db |-> db, threw |-> TRUE]
                /\ LET a == Handle(db, now, [kind |-> "postQuestion", userId |-> u,
                                             date |-> dt, question |-> q])
                   IN a.status = 500 /\ a.db = db

\* an addEvent has just thrown; the event e1 is the one u2 stored on date 2,
\* and the question q1 the one u1 stored on date 1
C34_Witness ==
    /\ last.op = "addEvent" /\ last.threw
    /\ Len(db.events) = 1
    /\ db.events[1].id = "e1" /\ db.events[1].user_id = "u2" /\ db.events[1].date = 2
    /\ Len(db.questions) = 1
    /\ db.questions[1].user_id = "u1" /\ db.questions[1].date = 1

(***************************************************************************)
(* SpecIsolation: two users side by side.  u1 writes metric values, an     *)
(* event and a question; u2 adds an event; both read their settings and    *)
(* send deletions with the ids of u1's first metric and of u1's event.     *)
(* Every request of every handler is then tried on each state reached.     *)
(***************************************************************************)
NextIsolation ==
    \/ \E u \in UserIds : GetSettings(u)
    \/ \E u \in DayUsers, p \in MetricIdPatches : PatchDay(u, NoopDate, p)
    \/ \E u \in UserIds : PostEvent(u, NoopDate, NoopEvents[u])
    \/ \E u \in DayUsers : PostQuestion(u, NoopDate, NoopQuestions[u])
    \/ \E u \in UserIds, id \in ApiMetricIds : DeleteMetric(u, id)
    \/ \E u \in UserIds : DeleteEvent(u, NoopEvents[NoopActor].id)

SpecIsolation == Init /\ [][NextIsolation]_vars

\* the store after the handler of the request q ran on the store d at time t
Effect(d, t, q) ==
    CASE q.kind \in {"getSettings", "getDay", "patchDay", "postEvent", "postQuestion"} ->
            Handle(d, t, q).db
      [] q.kind = "getDays" -> d
      [] q.kind = "deleteEvent" -> deleteEvent(d, q.userId, q.id)
      [] q.kind = "patchQuestion" -> updateQuestion(d, q.userId, q.id, q.answered)
      [] q.kind = "deleteQuestion" -> deleteQuestion(d, q.userId, q.id)
      [] q.kind = "postMetric" -> addMetric(d, q.userId, q.metric).db
      [] q.kind = "putMetric" -> updateMetric(d, q.userId, q.metric)
      [] q.kind = "deleteMetric" -> deleteMetric(d, q.userId, q.id)
      [] q.kind = "postEventType" -> addEventType(d, q.userId, q.eventType).db
      [] q.kind = "putEventType" -> updateEventType(d, q.userId, q.eventType)
      [] q.kind = "deleteEventType" -> deleteEventType(d, q.userId, q.id)

\* the requests that user u can send on the store d: one of every handler,
\* with the ids of the rows of d, whoever owns them, and an id that no row has
ApiRequests(d, u) ==
    LET ids(rows) == {r.id : r \in Range(rows)} \cup {"none"}
    IN {[kind |-> "getSettings", userId |-> u], [kind |-> "getDays", userId |-> u]}
       \cup {[kind |-> "getDay", userId |-> u, date |-> dt] : dt \in Dates}
       \cup {[kind |-> "patchDay", userId |-> u, date |-> dt, data |-> p] :
                dt \in Dates, p \in ApiPatches \cup DatePatches}
       \cup {[kind |-> "postEvent", userId |-> u, date |-> dt, event |-> e] :
                dt \in Dates, e \in TakenIdEvents \cup {NoopEvents[u]}}
       \cup {[kind |-> "postQuestion", userId |-> u, date |-> dt, question |-> q] :
                dt \in Dates, q \in TakenIdQuestions \cup {NoopQuestions[u]}}
       \cup {[kind |-> "deleteEvent", userId |-> u, id |-> id] : id \in ids(d.events)}
       \cup {[kind |-> "patchQuestion", userId |-> u, id |-> id, answered |-> a] :
                id \in ids(d.questions), a \in BOOLEAN}
       \cup {[kind |-> "deleteQuestion", userId |-> u, id |-> id] : id \in ids(d.questions)}
       \cup {[kind |-> "postMetric", userId |-> u, metric |-> ApiMetric]}
       \cup {[kind |-> "putMetric", userId |-> u, metric |-> MetricUpdate(id)] :
                id \in ids(d.user_metrics)}
       \cup {[kind |-> "deleteMetric", userId |-> u, id |-> id] : id \in ids(d.user_metrics)}
       \cup {[kind |-> "postEventType", userId |-> u, eventType |-> ApiEventType]}
       \cup {[kind |-> "putEventType", userId |-> u, eventType |-> EventTypeUpdate(id)] :
                id \in ids(d.user_event_types)}
       \cup {[kind |-> "deleteEventType", userId |-> u, id |-> id] :
                id \in ids(d.user_event_types)}

\* the rows of user v, table by table, in the order of the tables
RowsOf(d, v) ==
    [users |-> UserRows(d, v),
     user_metrics |-> MetricRows(d, v),
     user_event_types |-> EventTypeRows(d, v),
     day_data |-> SelectSeq(d.day_data, LAMBDA r : r.user_id = v),
     events |-> SelectSeq(d.events, LAMBDA r : r.user_id = v),
     questions |-> SelectSeq(d.questions, LAMBDA r : r.user_id = v)]

\* what user v reads from the store d2 is what v reads from the store d.  The
\* ids of metrics and event types are compared when v has both in d; the ids
\* of a seeding made by the read itself are new ones in either store.
SameFor(v, d, d2) ==
    /\ RowsOf(d2, v) = RowsOf(d, v)
    /\ \A dt \in Dates : getDayData(d2, v, dt).res = getDayData(d, v, dt).res
    /\ {SettingsBody(s) : s \in getUserSettings(d2, v).res} =
            {SettingsBody(s) : s \in getUserSettings(d, v).res}
    /\ Len(MetricRows(d, v)) > 0 /\ Len(EventTypeRows(d, v)) > 0 =>
            getUserSettings(d2, v).res = getUserSettings(d, v).res

\* C35: user isolation.  For users u # v, no request that u sends changes a
\* row of v in any table, nor what getDayData(v, d) returns for any date d,
\* nor what getUserSettings(v) returns.
C35_UserIsolation ==
    \A u \in UserIds, v \in UserIds :
        u # v =>
            \A q \in ApiRequests(db, u) :
                LET d2 == Effect(db, now, q)
                IN d2 # db => SameFor(v, db, d2)

\* u2 has just sent the deletion of the metric id1, which u1 owns and still
\* has; u1 has a day row with a metric value, an event and a question
C35_Witness ==
    /\ last.op = "deleteMetric"
    /\ last.res = Target("u2", "id1")
    /\ \E r \in Range(db.user_metrics) : r.id = "id1" /\ r.user_id = "u1"
    /\ MetricKeys(db, "u1", NoopDate) # {}
    /\ \E r \in Range(db.events) : r.user_id = "u1"
    /\ \E r \in Range(db.questions) : r.user_id = "u1"
    /\ Len(UserRows(db, "u2")) > 0

(***************************************************************************)
(* SpecHeaders: the X-User-Id header.  Callers send requests without the   *)
(* header, with an empty one, with ids of 2 and of MaxUserIdLength         *)
(* characters and with one of MaxUserIdLength + 1 characters.              *)
(***************************************************************************)
MaxUserIdLength == 100

\* a getUserId without the bound on the length
getUserIdAnyLength(header) ==
    IF header = NULL \/ header[1] = <<>> THEN "default-user" ELSE Text(header[1])

\* getUserId(req): header is req.headers['x-user-id'], NULL when the request
\* has no such header, the characters of its value otherwise; !userId is true
\* of undefined and of the empty string
getUserId(header) ==
    IF header = NULL \/ header[1] = <<>> \/ Len(header[1]) > MaxUserIdLength
    THEN "default-user"
    ELSE Text(header[1])

\* the request q as it arrives with the header, once the handler has its user
WithUser(header, q) == [q EXCEPT !.userId = getUserId(header)]

\* a handler called with the header: it takes its user from getUserId
ServeHeader(header, q) ==
    /\ db' = Effect(db, now, WithUser(header, q))
    /\ last' = Done(q.kind, FALSE, FALSE, {},
                   [header |-> header, userId |-> getUserId(header)])
    /\ UNCHANGED <<now, reqs, client>>

Headers ==
    {NULL, Some(<<>>), Some(<<"u", "1">>),
     Some([i \in 1..MaxUserIdLength |-> "a"]),
     Some([i \in 1..(MaxUserIdLength + 1) |-> "a"])}
\* the headers of the claim's first case: none, or one that is too long
DefaultedHeaders == {h \in Headers : h = NULL \/ Len(h[1]) > MaxUserIdLength}
HeaderRequests ==
    {[kind |-> "getSettings", userId |-> ""],
     [kind |-> "getDay", userId |-> "", date |-> NoopDate],
     [kind |-> "patchDay", userId |-> "", date |-> NoopDate, data |-> [notes |-> "x"]]}

NextHeaders == \E h \in Headers, q \in HeaderRequests : ServeHeader(h, q)

SpecHeaders == Init /\ [][NextHeaders]_vars

withoutFirst(list, id) == IF list = <<>> THEN list ELSE Tail(list)

\* prev.events.filter(e => e.id !== id)
without(list, id) == SelectSeq(list, LAMBDA e : e.id # id)

\* data.events.find(e => e.id === id): NULL for undefined
find(list, id) ==
    IF \E i \in DOMAIN list : list[i].id = id
    THEN Some(list[CHOOSE i \in DOMAIN list :
                        list[i].id = id /\ \A j \in 1..(i - 1) : list[j].id # id])
    ELSE NULL

\* the page awaits no API call
Idle == client.data # NULL /\ client.call = NULL
Awaits(kind) == client.call # NULL /\ client.call[1].kind = kind
\* the record of a callback that ended: the day of the page when it began, and
\* its entry
Ended(op, threw) ==
    Done(op, FALSE, threw, {},
         [before |-> client.call[1].before, entry |-> client.call[1].entry])

\* crypto.randomUUID(): an id that no entry of the page and no row has
FreshId(id) ==
    /\ \A e \in Range(client.data[1].events) \cup Range(client.data[1].questions) :
            e.id # id
    /\ \A r \in Range(db.events) \cup Range(db.questions) : r.id # id

\* the POST of an event or a question of the page, as the server handles it
PostOf(kind, entry) ==
    IF kind = "postEvent"
    THEN Handle(db, now, [kind |-> kind, userId |-> ClientUser, date |-> ClientToday,
                          event |-> entry])
    ELSE Handle(db, now, [kind |-> kind, userId |-> ClientUser, date |-> ClientToday,
                          question |-> entry])

\* addEvent(type), up to the await: the event is put first in the list
AppAddEvent(type, id, time) ==
    /\ Idle /\ FreshId(id)
    /\ Len(client.data[1].events) < MaxEvents
    /\ LET event == [id |-> id, time |-> time, type |-> type]
       IN client' = [client EXCEPT
                        !.data = Some([@[1] EXCEPT !.events = <<event>> \o @]),
                        !.call = Some([kind |-> "addEvent", entry |-> event,
                                       before |-> client.data[1]])]
    /\ last' = Done("App.addEvent", FALSE, FALSE, {}, NoRes)
    /\ UNCHANGED <<db, now, reqs>>

\* apiAddEvent resolves: setData(updated)
AddEventResolves ==
    /\ Awaits("addEvent")
    /\ LET a == PostOf("postEvent", client.call[1].entry)
       IN /\ a.status = 200
          /\ db' = a.db
          /\ \E updated \in a.body :
                client' = [client EXCEPT !.data = Some(updated), !.call = NULL]
    /\ last' = Ended("App.addEvent resolved", FALSE)
    /\ UNCHANGED <<now, reqs>>

\* apiAddEvent rejects: the catch block filters the event out.  The server
\* has stored the event when it is the response that was lost.
AddEventRejects ==
    /\ Awaits("addEvent")
    /\ \E stored \in BOOLEAN :
            db' = IF stored THEN PostOf("postEvent", client.call[1].entry).db ELSE db
    /\ client' = [client EXCEPT
                    !.data = Some([@[1] EXCEPT
                                !.events = without(@, client.call[1].entry.id)]),
                    !.call = NULL]
    /\ last' = Ended("App.addEvent rejected", TRUE)
    /\ UNCHANGED <<now, reqs>>

\* addQuestion(), up to the await: newQuestion.trim() is not empty; the
\* question is put last in the list
AppAddQuestion(newQuestion, id) ==
    /\ Idle /\ FreshId(id)
    /\ Trim(newQuestion) # <<>>
    /\ Len(client.data[1].questions) < MaxQuestions
    /\ LET question == [id |-> id, text |-> Text(Trim(newQuestion)), answered |-> FALSE]
       IN client' = [client EXCEPT
                        !.data = Some([@[1] EXCEPT !.questions = Append(@, question)]),
                        !.call = Some([kind |-> "addQuestion", entry |-> question,
                                       before |-> client.data[1]])]
    /\ last' = Done("App.addQuestion", FALSE, FALSE, {}, NoRes)
    /\ UNCHANGED <<db, now, reqs>>

\* apiAddQuestion resolves: setData(updated)
AddQuestionResolves ==
    /\ Awaits("addQuestion")
    /\ LET a == PostOf("postQuestion", client.call[1].entry)
       IN /\ a.status = 200
          /\ db' = a.db
          /\ \E updated \in a.body :
                client' = [client EXCEPT !.data = Some(updated), !.call = NULL]
    /\ last' = Ended("App.addQuestion resolved", FALSE)
    /\ UNCHANGED <<now, reqs>>

\* apiAddQuestion rejects: the catch block filters the question out
AddQuestionRejects ==
    /\ Awaits("addQuestion")
    /\ \E stored \in BOOLEAN :
            db' = IF stored THEN PostOf("postQuestion", client.call[1].entry).db ELSE db
    /\ client' = [client EXCEPT
                    !.data = Some([@[1] EXCEPT
                                !.questions = without(@, client.call[1].entry.id)]),
                    !.call = NULL]
    /\ last' = Ended("App.addQuestion rejected", TRUE)
    /\ UNCHANGED <<now, reqs>>

\* deleteEvent(id), up to the await: the event is filtered out of the list
AppDeleteEvent(id) ==
    /\ Idle
    /\ LET eventToDelete == find(client.data[1].events, id)
       IN client' = [client EXCEPT
                        !.data = Some([@[1] EXCEPT !.events = without(@, id)]),
                        !.call = Some([kind |-> "deleteEvent", id |-> id,
                                       entry |-> eventToDelete,
                                       before |-> client.data[1]])]
    /\ last' = Done("App.deleteEvent", FALSE, FALSE, {}, NoRes)
    /\ UNCHANGED <<db, now, reqs>>

\* apiDeleteEvent resolves: the page stays as it is
DeleteEventResolves ==
    /\ Awaits("deleteEvent")
    /\ db' = deleteEvent(db, ClientUser, client.call[1].id)
    /\ client' = [client EXCEPT !.call = NULL]
    /\ last' = Ended("App.deleteEvent resolved", FALSE)
    /\ UNCHANGED <<now, reqs>>

\* apiDeleteEvent rejects: the catch block puts eventToDelete after the
\* events of the list
DeleteEventRejects ==
    /\ Awaits("deleteEvent")
    /\ \E deleted \in BOOLEAN :
            db' = IF deleted THEN deleteEvent(db, ClientUser, client.call[1].id) ELSE db
    /\ client' = [client EXCEPT
                    !.data = IF client.call[1].entry = NULL THEN @
                             ELSE Some([@[1] EXCEPT
                                    !.events = @ \o <<client.call[1].entry[1]>>]),
                    !.call = NULL]
    /\ last' = Ended("App.deleteEvent rejected", TRUE)
    /\ UNCHANGED <<now, reqs>>

\* deleteQuestion(id), up to the await
AppDeleteQuestion(id) ==
    /\ Idle
    /\ LET questionToDelete == find(client.data[1].questions, id)
       IN client' = [client EXCEPT
                        !.data = Some([@[1] EXCEPT !.questions = without(@, id)]),
                        !.call = Some([kind |-> "deleteQuestion", id |-> id,
                                       entry |-> questionToDelete,
                                       before |-> client.data[1]])]
    /\ last' = Done("App.deleteQuestion", FALSE, FALSE, {}, NoRes)
    /\ UNCHANGED <<db, now, reqs>>

\* apiDeleteQuestion resolves: the page stays as it is
DeleteQuestionResolves ==
    /\ Awaits("deleteQuestion")
    /\ db' = deleteQuestion(db, ClientUser, client.call[1].id)
    /\ client' = [client EXCEPT !.call = NULL]
    /\ last' = Ended("App.deleteQuestion resolved", FALSE)
    /\ UNCHANGED <<now, reqs>>

\* apiDeleteQuestion rejects: the catch block puts questionToDelete after the
\* questions of the list
DeleteQuestionRejects ==
    /\ Awaits("deleteQuestion")
    /\ \E deleted \in BOOLEAN :
            db' = IF deleted THEN deleteQuestion(db, ClientUser, client.call[1].id)
                  ELSE db
    /\ client' = [client EXCEPT
                    !.data = IF client.call[1].entry = NULL THEN @
                             ELSE Some([@[1] EXCEPT
                                    !.questions = @ \o <<client.call[1].entry[1]>>]),
                    !.call = NULL]
    /\ last' = Ended("App.deleteQuestion rejected", TRUE)
    /\ UNCHANGED <<now, reqs>>

(***************************************************************************)
(* SpecOptimistic: the page loads; the user logs events, adds questions    *)
(* and deletes entries of the lists, one callback at a time; each API call *)
(* resolves or rejects.                                                    *)
(***************************************************************************)
ClientEventIds == {"c1", "c2"}
ClientQuestionIds == {"k1", "k2"}
ClientEventTypes == {"Bloods"}
\* what formatTime() reads from the clock of the browser
ClientTimes == {"09:00"}
\* what the user has typed into the question field
NewQuestions == {<<"a">>, <<" ", "b", " ">>, <<" ">>}

NextOptimistic ==
    \/ \E z \in TimeZones : z.name = "UTC" /\ LoadPage(z)
    \/ \E type \in ClientEventTypes, id \in ClientEventIds, time \in ClientTimes :
            AppAddEvent(type, id, time)
    \/ AddEventResolves
    \/ AddEventRejects
    \/ \E id \in ClientEventIds : AppDeleteEvent(id)
    \/ DeleteEventResolves
    \/ DeleteEventRejects
    \/ \E text \in NewQuestions, id \in ClientQuestionIds : AppAddQuestion(text, id)
    \/ AddQuestionResolves
    \/ AddQuestionRejects
    \/ \E id \in ClientQuestionIds : AppDeleteQuestion(id)
    \/ DeleteQuestionResolves
    \/ DeleteQuestionRejects

SpecOptimistic == Init /\ [][NextOptimistic]_vars

\* C37: optimistic add rollback.  When the API call of addEvent or of
\* addQuestion rejects, the list of the page is the list it was before the
\* callback began (no other callback ran in between), and so is the rest of
\* the day on the page.  When the call resolves, the day on the page is the
\* aggregate the server answered, which is what getDayData returns, with the
\* added entry in it.
C37_AddRollback ==
    /\ last.op \in {"App.addEvent rejected", "App.addQuestion rejected"} =>
            client.data[1] = last.res.before
    /\ last.op \in {"App.addEvent resolved", "App.addQuestion resolved"} =>
            /\ client.data[1] \in getDayData(db, ClientUser, ClientToday).res
            /\ \E e \in Range(client.data[1].events) \cup Range(client.data[1].questions) :
                    e.id = last.res.entry.id

\* the add of a second question has just been rejected: the page shows the
\* one question it showed before
C37_Witness ==
    /\ last.op = "App.addQuestion rejected"
    /\ Len(last.res.before.questions) = 1
    /\ client.data[1].questions = last.res.before.questions
    /\ client.call = NULL

\* C38: optimistic delete rollback.  When the API call of deleteEvent or of
\* deleteQuestion rejects, the list of the page is the list it was before the
\* delete: the same entries in the same order.
C38_DeleteRollback ==
    last.op \in {"App.deleteEvent rejected", "App.deleteQuestion rejected"} =>
        /\ client.data[1].events = last.res.before.events
        /\ client.data[1].questions = last.res.before.questions
====
